---- MODULE Spec2Model ----
(***************************************************************************)
(* X402 on Sui: the resource-server interceptor (paymentMiddleware), the   *)
(* verifier and settler (verifyPayment, settlePayment), the facilitator    *)
(* service and the payment-aware transport (wrapFetchWithPayment), with    *)
(* the Sui ledger as the external collaborator they call.                  *)
(***************************************************************************)
EXTENDS Integers, Sequences, FiniteSets, TLC

VARIABLES
    ledger,     \* the Sui ledger: [executed, balance]
    vcall,      \* the calls of verifyPayment made on one payload: inputs and results
    config,     \* the arguments paymentMiddleware was created with
    mw,         \* per request context of the middleware: position, req, res, locals
    served,     \* the number of requests received so far
    client      \* the call of the wrapped fetch in progress, and its result

vars == <<ledger, vcall, config, mw, served, client>>

serverVars == <<config, mw, served, client>>

(***************************************************************************)
(* JavaScript values.  A string of the program is a TLA+ string, except    *)
(* the decimal amount strings, which are sequences of one-character        *)
(* strings so that BigInt() can be computed on them.  An object is         *)
(* [type |-> "object", props |-> record]; a missing property reads as      *)
(* Undefined.                                                              *)
(***************************************************************************)
Undefined == "<undefined>"

JSNull == [type |-> "null"]

JSUndefined == [type |-> "undefined"]

JSNumber(n) == [type |-> "number", n |-> n]

JSObject(props) == [type |-> "object", props |-> props]

HasProp(v, k) == v.type = "object" /\ k \in DOMAIN v.props

\* v.k for a string-valued property of a non-null value
Prop(v, k) == IF HasProp(v, k) THEN v.props[k] ELSE Undefined

\* Outcomes of a call: a returned value or a thrown error
Ret(v) == [kind |-> "return", v |-> v]

Throw(e) == [kind |-> "throw", e |-> e]

Returned(o) == o.kind = "return"

(***************************************************************************)
(* BigInt(string): StringToBigInt of ECMAScript.  White space is trimmed,  *)
(* the empty string is 0n, a decimal literal may carry a sign, 0x/0o/0b    *)
(* literals carry none, anything else is a SyntaxError.                    *)
(***************************************************************************)
DigitChars == <<"0", "1", "2", "3", "4", "5", "6", "7", "8", "9",
                "a", "b", "c", "d", "e", "f">>

DigitValue(c) == (CHOOSE i \in 1..Len(DigitChars) : DigitChars[i] = c) - 1

IsDigit(c, radix) ==
    \E i \in 1..Len(DigitChars) : DigitChars[i] = c /\ i - 1 < radix

AllDigits(s, radix) == s # <<>> /\ \A i \in 1..Len(s) : IsDigit(s[i], radix)

RECURSIVE RadixValue(_, _, _)
RadixValue(s, radix, acc) ==
    IF s = <<>> THEN acc
    ELSE RadixValue(Tail(s), radix, acc * radix + DigitValue(Head(s)))

RECURSIVE TrimLeft(_)
TrimLeft(s) == IF s # <<>> /\ Head(s) = " " THEN TrimLeft(Tail(s)) ELSE s

RECURSIVE TrimRight(_)
TrimRight(s) ==
    IF s # <<>> /\ s[Len(s)] = " " THEN TrimRight(SubSeq(s, 1, Len(s) - 1)) ELSE s

PrefixRadix(c) == CASE c \in {"x", "X"} -> 16
                    [] c \in {"o", "O"} -> 8
                    [] c \in {"b", "B"} -> 2
                    [] OTHER -> 0

\* StringIntegerLiteral of the trimmed text
ParseInteger(t) ==
    IF t = <<>> THEN Ret(0)
    ELSE IF AllDigits(t, 10) THEN Ret(RadixValue(t, 10, 0))
    ELSE IF Head(t) = "-" /\ AllDigits(Tail(t), 10) THEN Ret(0 - RadixValue(Tail(t), 10, 0))
    ELSE IF Head(t) = "+" /\ AllDigits(Tail(t), 10) THEN Ret(RadixValue(Tail(t), 10, 0))
    ELSE IF Len(t) > 2 /\ t[1] = "0" /\ PrefixRadix(t[2]) # 0
            /\ AllDigits(SubSeq(t, 3, Len(t)), PrefixRadix(t[2]))
         THEN Ret(RadixValue(SubSeq(t, 3, Len(t)), PrefixRadix(t[2]), 0))
    ELSE Throw("SyntaxError")

BigInt(s) == ParseInteger(TrimRight(TrimLeft(s)))

\* BigInt(v.k): BigInt(undefined) is a TypeError
BigIntProp(v, k) == IF HasProp(v, k) THEN BigInt(v.props[k]) ELSE Throw("TypeError")

(***************************************************************************)
(* Transport encodings.  A base64 text is [b64 |-> bytes]; text that is    *)
(* not base64 is NotBase64. A JSON text is [json |-> value]; JSON.stringify*)
(* leaves out the properties whose value is undefined.                     *)
(***************************************************************************)
NotBase64 == [notb64 |-> TRUE]

GarbageText == [garbage |-> TRUE]

toB64(bytes) == [b64 |-> bytes]

\* fromB64 of @mysten/bcs (atob): throws on text that is not base64
fromB64(text) == IF "b64" \in DOMAIN text THEN Ret(text.b64) ELSE Throw("InvalidCharacterError")

\* Buffer.from(bytes).toString("base64")
BufferToBase64(bytes) == [b64 |-> bytes]

\* Buffer.from(text, "base64").toString("utf-8"): lenient, never throws
BufferFromBase64(text) == IF "b64" \in DOMAIN text THEN text.b64 ELSE GarbageText

JSONstringify(v) == [json |-> v]

JSONparse(text) == IF "json" \in DOMAIN text THEN Ret(text.json) ELSE Throw("SyntaxError")

\* !v for the values a parsed body holds
Falsy(v) == v.type \in {"null", "undefined"} \/ (v.type = "number" /\ v.n = 0)

(***************************************************************************)
(* The Sui ledger, as the ledger client shows it: balances per account and *)
(* coin type, and the transactions already executed.  A transaction        *)
(* consumes the object versions it names, so it executes at most once.     *)
(***************************************************************************)
SUI == "0x2::sui::SUI"

USDC == "0x2::usdc::USDC"

Assets == {SUI, USDC}

Accounts == {"client", "payee", "mallory"}

SuiNetworks == {"sui-localnet", "sui-devnet", "sui-testnet", "sui-mainnet"}

TxIds == {"t1", "t2", "t3"}

\* The signed transfers the senders of the model have built
TxTable(t) ==
    CASE t = "t1" -> [sender |-> "client", to |-> "payee", asset |-> SUI, amount |-> 10]
      [] t = "t2" -> [sender |-> "client", to |-> "payee", asset |-> USDC, amount |-> 10]
      [] t = "t3" -> [sender |-> "client", to |-> "payee", asset |-> SUI, amount |-> 30]

SignatureOf(t) == "sig:" \o t

BadSignature == "sig:none"

InitLedger ==
    [executed |-> {},
     balance |-> [k \in Accounts \X Assets |-> IF k[1] = "client" THEN 25 ELSE 0]]

IsTransaction(bytes) == bytes \in TxIds

CanExecute(L, t) ==
    /\ t \notin L.executed
    /\ L.balance[<<TxTable(t).sender, TxTable(t).asset>>] >= TxTable(t).amount

Transfer(L, t) ==
    LET tx == TxTable(t) IN
    [executed |-> L.executed \cup {t},
     balance |-> [k \in Accounts \X Assets |->
                    IF k = <<tx.sender, tx.asset>> THEN L.balance[k] - tx.amount
                    ELSE IF k = <<tx.to, tx.asset>> THEN L.balance[k] + tx.amount
                    ELSE L.balance[k]]]

\* SuiClient.dryRunTransactionBlock: simulates, commits nothing
dryRunTransactionBlock(L, bytes, rpc) ==
    [out |-> IF rpc = "down" THEN Throw("fetch failed")
             ELSE IF ~IsTransaction(bytes) THEN Throw("invalid transaction bytes")
             ELSE Ret([status |-> IF CanExecute(L, bytes) THEN "success" ELSE "failure",
                       digest |-> bytes]),
     ledger |-> L]

\* SuiClient.executeTransactionBlock: checks the signature and commits
executeTransactionBlock(L, bytes, signature, rpc) ==
    IF rpc = "down" THEN [out |-> Throw("fetch failed"), ledger |-> L]
    ELSE IF ~IsTransaction(bytes) THEN [out |-> Throw("invalid transaction bytes"), ledger |-> L]
    ELSE IF signature # SignatureOf(bytes) THEN [out |-> Throw("invalid signature"), ledger |-> L]
    ELSE IF ~CanExecute(L, bytes)
         THEN [out |-> Ret([status |-> "failure", digest |-> bytes]), ledger |-> L]
    ELSE [out |-> Ret([status |-> "success", digest |-> bytes]), ledger |-> Transfer(L, bytes)]

\* getSuiClient: the custom RPC URL when given, else the network's fullnode
getSuiClient(network, rpcUrl) ==
    IF rpcUrl # Undefined THEN Ret(rpcUrl)
    ELSE IF network \in SuiNetworks THEN Ret(network)
    ELSE Throw("TypeError")

(***************************************************************************)
(* verifyPayment.  The value is [out, ledger, rpcCalls]: what the call     *)
(* returns or throws, the ledger after it and the ledger calls it made.    *)
(***************************************************************************)
\* paidAmount < requiredAmount, after both BigInt() conversions
AmountCheck(paid, required) ==
    IF ~Returned(paid) THEN paid
    ELSE IF ~Returned(required) THEN required
    ELSE IF paid.v < required.v THEN Ret(FALSE)
    ELSE Ret(TRUE)

\* Mutant: the asset comparison is left out
FieldChecksNoAsset(p, r) ==
    IF p.type = "null" THEN Throw("TypeError")
    ELSE IF Prop(p, "scheme") # "exact" THEN Ret(FALSE)
    ELSE IF r.type = "null" THEN Throw("TypeError")
    ELSE IF Prop(p, "network") # Prop(r, "network") THEN Ret(FALSE)
    ELSE IF Prop(p, "payTo") # Prop(r, "payTo") THEN Ret(FALSE)
    ELSE AmountCheck(BigIntProp(p, "amount"), BigIntProp(r, "maxAmountRequired"))

\* Steps 1 and 2: scheme, network, payTo, asset, then the amount
FieldChecks(p, r) ==
    IF p.type = "null" THEN Throw("TypeError")
    ELSE IF Prop(p, "scheme") # "exact" THEN Ret(FALSE)
    ELSE IF r.type = "null" THEN Throw("TypeError")
    ELSE IF Prop(p, "network") # Prop(r, "network") THEN Ret(FALSE)
    ELSE IF Prop(p, "payTo") # Prop(r, "payTo") THEN Ret(FALSE)
    ELSE IF Prop(p, "asset") # Prop(r, "asset") THEN Ret(FALSE)
    ELSE AmountCheck(BigIntProp(p, "amount"), BigIntProp(r, "maxAmountRequired"))

\* A result reached without calling the ledger
NoLedgerCall(out, L) == [out |-> out, ledger |-> L, rpcCalls |-> 0]

\* fromB64(paymentPayload.transaction)
TransactionBytes(p) ==
    IF HasProp(p, "transaction") THEN fromB64(p.props.transaction) ELSE Throw("TypeError")

\* dryRunResult.effects.status.status !== "success"
StatusCheck(run) ==
    [out |-> IF ~Returned(run.out) THEN run.out
             ELSE IF run.out.v.status # "success" THEN Ret(FALSE)
             ELSE Ret(TRUE),
     ledger |-> run.ledger,
     rpcCalls |-> 1]

\* Mutant: the transfer is executed instead of dry-run
SimulateCheckExecuting(p, rpcUrl, L, rpc) ==
    IF ~Returned(getSuiClient(Prop(p, "network"), rpcUrl))
    THEN NoLedgerCall(getSuiClient(Prop(p, "network"), rpcUrl), L)
    ELSE IF ~Returned(TransactionBytes(p)) THEN NoLedgerCall(TransactionBytes(p), L)
    ELSE StatusCheck(executeTransactionBlock(L, TransactionBytes(p).v,
                                             SignatureOf(TransactionBytes(p).v), rpc))

\* Step 3: the dry run of the signed transfer
SimulateCheck(p, rpcUrl, L, rpc) ==
    IF ~Returned(getSuiClient(Prop(p, "network"), rpcUrl))
    THEN NoLedgerCall(getSuiClient(Prop(p, "network"), rpcUrl), L)
    ELSE IF ~Returned(TransactionBytes(p)) THEN NoLedgerCall(TransactionBytes(p), L)
    ELSE StatusCheck(dryRunTransactionBlock(L, TransactionBytes(p).v, rpc))

\* Mutant: the dry run comes before the field checks
VerifyBodySimulateFirst(p, r, rpcUrl, L, rpc) ==
    IF SimulateCheck(p, rpcUrl, L, rpc).out # Ret(TRUE) THEN SimulateCheck(p, rpcUrl, L, rpc)
    ELSE [SimulateCheck(p, rpcUrl, L, rpc) EXCEPT !.out = FieldChecks(p, r)]

\* The body of the try block
VerifyBody(p, r, rpcUrl, L, rpc) ==
    IF FieldChecks(p, r) # Ret(TRUE) THEN NoLedgerCall(FieldChecks(p, r), L)
    ELSE SimulateCheck(p, rpcUrl, L, rpc)

\* Mutant: no catch around the body
verifyPaymentNoCatch(p, r, rpcUrl, L, rpc) == VerifyBody(p, r, rpcUrl, L, rpc)

\* catch (error) { return false; }
CatchReturnFalse(body) ==
    IF Returned(body.out) THEN body ELSE [body EXCEPT !.out = Ret(FALSE)]

verifyPayment(p, r, rpcUrl, L, rpc) == CatchReturnFalse(VerifyBody(p, r, rpcUrl, L, rpc))

\* The console.error of the field check that returned false, "" when none did
FieldCheckMessage(p, r) ==
    IF p.type = "null" THEN ""
    ELSE IF Prop(p, "scheme") # "exact" THEN "Invalid payment scheme:"
    ELSE IF r.type = "null" THEN ""
    ELSE IF Prop(p, "network") # Prop(r, "network") THEN "Network mismatch:"
    ELSE IF Prop(p, "payTo") # Prop(r, "payTo") THEN "PayTo address mismatch:"
    ELSE IF Prop(p, "asset") # Prop(r, "asset") THEN "Asset type mismatch:"
    ELSE IF AmountCheck(BigIntProp(p, "amount"), BigIntProp(r, "maxAmountRequired"))
              = Ret(FALSE)
    THEN "Insufficient payment amount:"
    ELSE ""

\* What a call of verifyPayment writes with console.error
ConsoleError(p, r, rpcUrl, L, rpc) ==
    IF FieldCheckMessage(p, r) # "" THEN FieldCheckMessage(p, r)
    ELSE IF ~Returned(VerifyBody(p, r, rpcUrl, L, rpc).out) THEN "Payment verification failed:"
    ELSE IF VerifyBody(p, r, rpcUrl, L, rpc).out = Ret(FALSE)
    THEN "Transaction dry run failed:"
    ELSE ""

(***************************************************************************)
(* settlePayment: commits the transfer; throws unless the ledger reports   *)
(* success.                                                                *)
(***************************************************************************)
\* Mutant: the status the ledger reported is not looked at
SettleResultIgnoringStatus(p, run, now) ==
    [out |-> IF ~Returned(run.out) THEN run.out
             ELSE Ret([transactionDigest |-> run.out.v.digest,
                       amount |-> Prop(p, "amount"),
                       timestamp |-> now,
                       effects |-> run.out.v]),
     ledger |-> run.ledger,
     rpcCalls |-> 1]

\* The receipt, or the error when the ledger did not report success
SettleResult(p, run, now) ==
    [out |-> IF ~Returned(run.out) THEN run.out
             ELSE IF run.out.v.status # "success" THEN Throw("Transaction failed")
             ELSE Ret([transactionDigest |-> run.out.v.digest,
                       amount |-> Prop(p, "amount"),
                       timestamp |-> now,
                       effects |-> run.out.v]),
     ledger |-> run.ledger,
     rpcCalls |-> 1]

settlePayment(p, rpcUrl, L, rpc, now) ==
    IF p.type = "null" THEN NoLedgerCall(Throw("TypeError"), L)
    ELSE IF ~Returned(getSuiClient(Prop(p, "network"), rpcUrl))
    THEN NoLedgerCall(getSuiClient(Prop(p, "network"), rpcUrl), L)
    ELSE IF ~Returned(TransactionBytes(p)) THEN NoLedgerCall(TransactionBytes(p), L)
    ELSE SettleResult(p, executeTransactionBlock(L, TransactionBytes(p).v,
                                                 Prop(p, "signature"), rpc), now)

(***************************************************************************)
(* The facilitator service: POST /verify and POST /settle.  The value is   *)
(* the HTTP answer [status, body] with the ledger after the call.          *)
(***************************************************************************)
FacilitatorRpcUrl == "http://127.0.0.1:9000"

HttpOk(status) == status >= 200 /\ status <= 299

BodyProp(body, k) == IF HasProp(body, k) THEN body.props[k] ELSE JSUndefined

\* Mutant: /verify answers 200 whatever verifyPayment returned
FacilitatorVerifyAlwaysOk(body, L, rpc) ==
    [status |-> 200, body |-> JSObject([valid |-> TRUE]), ledger |-> L, verdict |-> "none"]

\* The answer of /verify to what verifyPayment returned
\* Mutant: /verify answers 200 and reports the verdict in the body only
VerifyAnswerInBody(v) ==
    IF ~Returned(v.out)
    THEN [status |-> 500, body |-> JSObject([valid |-> FALSE, error |-> v.out.e]),
          ledger |-> v.ledger, verdict |-> "threw"]
    ELSE [status |-> 200, body |-> JSObject([valid |-> v.out.v]),
          ledger |-> v.ledger, verdict |-> IF v.out.v THEN "true" ELSE "false"]

VerifyAnswer(v) ==
    IF ~Returned(v.out)
    THEN [status |-> 500, body |-> JSObject([valid |-> FALSE, error |-> v.out.e]),
          ledger |-> v.ledger, verdict |-> "threw"]
    ELSE IF v.out.v
    THEN [status |-> 200, body |-> JSObject([valid |-> TRUE]),
          ledger |-> v.ledger, verdict |-> "true"]
    ELSE [status |-> 400,
          body |-> JSObject([valid |-> FALSE, error |-> "Payment verification failed"]),
          ledger |-> v.ledger, verdict |-> "false"]

FacilitatorVerify(body, L, rpc) ==
    IF Falsy(BodyProp(body, "paymentPayload")) \/ Falsy(BodyProp(body, "paymentRequirement"))
    THEN [status |-> 400,
          body |-> JSObject([valid |-> FALSE,
                             error |-> "Missing paymentPayload or paymentRequirement"]),
          ledger |-> L, verdict |-> "none"]
    ELSE VerifyAnswer(verifyPayment(BodyProp(body, "paymentPayload"),
                                    BodyProp(body, "paymentRequirement"),
                                    FacilitatorRpcUrl, L, rpc))

\* Mutant: /settle answers 200 whatever settlePayment did
SettleAnswerAlwaysOk(r) ==
    [status |-> 200,
     body |-> IF Returned(r.out) THEN JSObject(r.out.v) ELSE JSObject([error |-> r.out.e]),
     ledger |-> r.ledger, rpcCalls |-> r.rpcCalls]

\* The answer of /settle to what settlePayment returned or threw
SettleAnswer(r) ==
    IF ~Returned(r.out)
    THEN [status |-> 500, body |-> JSObject([error |-> r.out.e]),
          ledger |-> r.ledger, rpcCalls |-> r.rpcCalls]
    ELSE [status |-> 200, body |-> JSObject(r.out.v),
          ledger |-> r.ledger, rpcCalls |-> r.rpcCalls]

FacilitatorSettle(body, L, rpc, now) ==
    IF Falsy(BodyProp(body, "paymentPayload"))
    THEN [status |-> 400, body |-> JSObject([error |-> "Missing paymentPayload"]),
          ledger |-> L, rpcCalls |-> 0]
    ELSE SettleAnswer(settlePayment(BodyProp(body, "paymentPayload"), FacilitatorRpcUrl,
                                    L, rpc, now))

(***************************************************************************)
(* paymentMiddleware(payTo, routes, facilitator, paywall, x402Config).     *)
(***************************************************************************)
DEFAULT_TOKEN == [coinType |-> SUI, decimals |-> 9, name |-> "SUI", symbol |-> "SUI"]

PayTo == "payee"

RoutePaths == {"/weather", "/premium"}

\* The route policy: /premium is configured without a methods list
Routes(path) ==
    CASE path = "/weather" -> [methods |-> <<"GET">>, price |-> <<"1", "0">>,
                               description |-> "Get weather information"]
      [] path = "/premium" -> [price |-> <<"2", "0">>]

NoX402Config == [given |-> FALSE]

UsdcX402Config ==
    [given |-> TRUE,
     suiConfig |-> [network |-> "sui-localnet", rpcUrl |-> "http://127.0.0.1:9000"],
     tokenConfig |-> [coinType |-> USDC, decimals |-> 6, name |-> "USDC", symbol |-> "USDC"]]

NoFacilitator == [given |-> FALSE]

LocalFacilitator == [given |-> TRUE, url |-> "http://localhost:3002"]

Configs ==
    [facilitator : {NoFacilitator, LocalFacilitator}, x402Config : {NoX402Config, UsdcX402Config}]

DirectConfig == [facilitator |-> NoFacilitator, x402Config |-> NoX402Config]

\* x402Config?.tokenConfig || DEFAULT_TOKEN
TokenConfig(cfg) == IF cfg.x402Config.given THEN cfg.x402Config.tokenConfig ELSE DEFAULT_TOKEN

\* x402Config?.suiConfig?.network || "sui-localnet"
Network(cfg) == IF cfg.x402Config.given THEN cfg.x402Config.suiConfig.network ELSE "sui-localnet"

\* x402Config?.suiConfig?.rpcUrl
RpcUrl(cfg) == IF cfg.x402Config.given THEN cfg.x402Config.suiConfig.rpcUrl ELSE Undefined

Includes(seq, x) == \E i \in 1..Len(seq) : seq[i] = x

\* Mutant: the method list is not consulted
RouteRequiresPaymentAnyMethod(rq) == rq.path \in RoutePaths

\* Mutant: a route without a methods list is protected for every method
RouteRequiresPaymentNoListAll(rq) ==
    /\ rq.path \in RoutePaths
    /\ "methods" \in DOMAIN Routes(rq.path) => Includes(Routes(rq.path).methods, rq.method)

\* routes[req.path] is set and (routeConfig.methods || ["GET"]) includes req.method
RouteRequiresPayment(rq) ==
    /\ rq.path \in RoutePaths
    /\ Includes(IF "methods" \in DOMAIN Routes(rq.path) THEN Routes(rq.path).methods
                ELSE <<"GET">>,
                rq.method)

\* Mutant: the resource is the path, without the query string
ResourceUrlNoQuery(rq) == rq.protocol \o "://" \o rq.host \o rq.path

\* `${req.protocol}://${req.get("host")}${req.originalUrl}`
ResourceUrl(rq) == rq.protocol \o "://" \o rq.host \o rq.path \o rq.query

\* Mutant: the challenge always names the default token
ChallengeRequirementDefaultToken(cfg, rq) ==
    [type |-> "object",
     props |-> [scheme |-> "exact", network |-> Network(cfg),
                maxAmountRequired |-> Routes(rq.path).price,
                resource |-> ResourceUrl(rq),
                description |-> IF "description" \in DOMAIN Routes(rq.path)
                                THEN Routes(rq.path).description ELSE "",
                mimeType |-> "", payTo |-> PayTo, maxTimeoutSeconds |-> 60,
                asset |-> DEFAULT_TOKEN.coinType,
                outputSchema |-> [input |-> [type |-> "http", method |-> rq.method,
                                             discoverable |-> TRUE]],
                extra |-> [feePayer |-> "facilitator"]],
     undef |-> IF cfg.facilitator.given THEN {} ELSE {"extra"}]

\* The requirement of the 402 challenge; extra is undefined without a facilitator
ChallengeRequirement(cfg, rq) ==
    [type |-> "object",
     props |-> [scheme |-> "exact", network |-> Network(cfg),
                maxAmountRequired |-> Routes(rq.path).price,
                resource |-> ResourceUrl(rq),
                description |-> IF "description" \in DOMAIN Routes(rq.path)
                                THEN Routes(rq.path).description ELSE "",
                mimeType |-> "", payTo |-> PayTo, maxTimeoutSeconds |-> 60,
                asset |-> TokenConfig(cfg).coinType,
                outputSchema |-> [input |-> [type |-> "http", method |-> rq.method,
                                             discoverable |-> TRUE]],
                extra |-> [feePayer |-> "facilitator"]],
     undef |-> IF cfg.facilitator.given THEN {} ELSE {"extra"}]

\* JSON.stringify of an object leaves out its undefined properties
DefinedProps(o) == JSObject([k \in DOMAIN o.props \ o.undef |-> o.props[k]])

ChallengeBody(cfg, rq) ==
    JSObject([x402Version |-> 1, error |-> "X-PAYMENT header is required",
              accepts |-> <<ChallengeRequirement(cfg, rq)>>])

\* JSON.stringify(responseData) of res.json
ChallengeText(body) ==
    JSONstringify([body EXCEPT !.props.accepts = [i \in DOMAIN @ |-> DefinedProps(@[i])]])

\* The requirement a payload is verified against
\* Mutant: the asset to verify against is the one the payload names
VerificationRequirementFromPayload(cfg, rq) ==
    JSObject([scheme |-> "exact", network |-> Network(cfg),
              maxAmountRequired |-> Routes(rq.path).price,
              resource |-> ResourceUrl(rq), payTo |-> PayTo, maxTimeoutSeconds |-> 60,
              asset |-> Prop(JSONparse(BufferFromBase64(rq.xpayment)).v, "asset")])

VerificationRequirement(cfg, rq) ==
    JSObject([scheme |-> "exact", network |-> Network(cfg),
              maxAmountRequired |-> Routes(rq.path).price,
              resource |-> ResourceUrl(rq), payTo |-> PayTo, maxTimeoutSeconds |-> 60,
              asset |-> TokenConfig(cfg).coinType])

NoHeader == [absent |-> TRUE]

EmptyHeader == [empty |-> TRUE]

\* !paymentHeader: the header is missing or the empty string
HeaderMissing(h) == h = NoHeader \/ h = EmptyHeader

NoCall == [n |-> 0]

NoResponse == [status |-> 0]

NoRequest == [method |-> "none"]

Fresh ==
    [pc |-> "idle", req |-> NoRequest, x402Payment |-> JSUndefined,
     statusCode |-> 200, headersSent |-> FALSE, headers |-> {}, wrapped |-> FALSE,
     finishListener |-> FALSE, delivered |-> NoResponse,
     paymentPayload |-> JSUndefined, paymentRequirement |-> JSUndefined,
     routeExecuted |-> FALSE, routeStatusCode |-> 200,
     nextCalls |-> 0, written |-> 0, verifyCalls |-> 0, settleCalls |-> 0,
     verdict |-> "none", verifyStatus |-> 0, fault |-> "none", escaped |-> FALSE,
     log |-> {}]

\* res.status(code).json(body): the middleware's own answer ends the request
Respond(c, code, text) ==
    [c EXCEPT !.pc = "done", !.statusCode = code, !.headersSent = TRUE,
              !.delivered = [status |-> code, body |-> text, headers |-> c.headers],
              !.written = @ + 1]

ErrorText(message) == JSONstringify(JSObject([x402Version |-> 1, error |-> message]))

\* next() of a request the middleware does not protect
PassThrough(c) == [c EXCEPT !.pc = "handling", !.nextCalls = @ + 1]

\* Mutant: the catch block passes the request on
CatchBlockFailOpen(c, cause) == [c EXCEPT !.pc = "handling", !.nextCalls = @ + 1, !.fault = cause]

\* catch (error): whatever was thrown inside the try block
CatchBlock(c, cause) ==
    Respond([c EXCEPT !.fault = cause, !.log = @ \cup {"Payment processing error"}],
            402, ErrorText("Invalid payment format"))

\* Mutant: the handler runs whatever isValid is
AfterVerifyFailOpen(c, isValid) ==
    [c EXCEPT !.pc = "handling", !.x402Payment = c.paymentPayload, !.wrapped = TRUE,
              !.finishListener = TRUE, !.nextCalls = @ + 1]

\* Mutant: the payload is not attached to the request
AfterVerifyNoAttach(c, isValid) ==
    IF ~isValid THEN Respond(c, 402, ErrorText("Payment verification failed"))
    ELSE [c EXCEPT !.pc = "handling", !.wrapped = TRUE,
                   !.finishListener = TRUE, !.nextCalls = @ + 1]

\* From "if (!isValid)" to res.on("finish", ...)
\* Mutant: the rejection names the asset of the payload that failed
AfterVerifyLeaking(c, isValid) ==
    IF ~isValid
    THEN Respond(c, 402, ErrorText("Payment verification failed: "
                                   \o (IF HasProp(c.paymentPayload, "asset")
                                       THEN c.paymentPayload.props.asset ELSE "unknown")))
    ELSE [c EXCEPT !.pc = "handling", !.x402Payment = c.paymentPayload, !.wrapped = TRUE,
                   !.finishListener = TRUE, !.nextCalls = @ + 1]

AfterVerify(c, isValid) ==
    IF ~isValid THEN Respond(c, 402, ErrorText("Payment verification failed"))
    ELSE [c EXCEPT !.pc = "handling", !.x402Payment = c.paymentPayload, !.wrapped = TRUE,
                   !.finishListener = TRUE, !.nextCalls = @ + 1]

\* The middleware up to its first await
MiddlewareEntry(cfg, rq) ==
    LET c == [Fresh EXCEPT !.req = rq] IN
    IF ~RouteRequiresPayment(rq) THEN PassThrough(c)
    ELSE IF HeaderMissing(rq.xpayment) THEN Respond(c, 402, ChallengeText(ChallengeBody(cfg, rq)))
    ELSE LET parsed == JSONparse(BufferFromBase64(rq.xpayment)) IN
         IF ~Returned(parsed) THEN CatchBlock(c, "decode")
         ELSE [c EXCEPT !.pc = "verifying", !.paymentPayload = parsed.v,
                        !.paymentRequirement = VerificationRequirement(cfg, rq)]

\* verifyResponse.ok
VerifyResponseOk(status) == HttpOk(status)

\* res.setHeader: throws once the headers have been sent
setHeader(c, name, value) ==
    IF c.headersSent THEN Throw("ERR_HTTP_HEADERS_SENT")
    ELSE Ret([c EXCEPT !.headers = @ \cup {<<name, value>>}])

(***************************************************************************)
(* The requests of the model.  The payloads are what a client may put in   *)
(* the x-payment header: honest ones and ones that do not match.           *)
(***************************************************************************)
Payment(amount, asset, transaction, signature) ==
    JSObject([scheme |-> "exact", network |-> "sui-localnet", transaction |-> transaction,
              signature |-> signature, amount |-> amount, payTo |-> PayTo, asset |-> asset])

PaidSui == Payment(<<"1", "0">>, SUI, toB64("t1"), SignatureOf("t1"))

PaidUsdc == Payment(<<"1", "0">>, USDC, toB64("t2"), SignatureOf("t2"))

PaidTooLittle == Payment(<<"5">>, SUI, toB64("t1"), SignatureOf("t1"))

PaidUnsigned == Payment(<<"1", "0">>, SUI, toB64("t1"), BadSignature)

PaidNoTransfer == Payment(<<"1", "0">>, SUI, NotBase64, SignatureOf("t1"))

PaidBeyondBalance == Payment(<<"3", "0">>, SUI, toB64("t3"), SignatureOf("t3"))

\* Buffer.from(JSON.stringify(payment)).toString("base64")
EncodeHeader(v) == BufferToBase64(JSONstringify(v))

GarbageHeader == BufferToBase64(GarbageText)

HeaderMenu ==
    {NoHeader, EmptyHeader, GarbageHeader, EncodeHeader(JSNull), EncodeHeader(PaidSui),
     EncodeHeader(PaidUsdc), EncodeHeader(PaidTooLittle), EncodeHeader(PaidUnsigned),
     EncodeHeader(PaidNoTransfer)}

Request(method, path, query, xpayment) ==
    [method |-> method, path |-> path, query |-> query, protocol |-> "http",
     host |-> "localhost:4021", xpayment |-> xpayment]

RequestMenu ==
    {Request("GET", "/weather", "", h) : h \in HeaderMenu}
    \cup {Request("GET", "/weather", "?city=sf", h) : h \in {NoHeader, EncodeHeader(PaidSui)}}
    \cup {Request("GET", "/premium", "", h) :
            h \in {NoHeader, EncodeHeader(PaidSui), EncodeHeader(PaidBeyondBalance)}}
    \cup {Request("POST", p, "", h) :
            p \in RoutePaths, h \in {NoHeader, EncodeHeader(PaidSui)}}
    \cup {Request("GET", "/public", "", h) :
            h \in {NoHeader, GarbageHeader, EncodeHeader(PaidSui)}}

Slots == {"a", "b"}

MaxRequests == 3

(***************************************************************************)
(* The paying client: createAndSignPayment, createPaymentHeader and the    *)
(* fetch wrapper.  The wrapped fetchFn reaches the middleware above or     *)
(* some other x402 server, whose answers are inputs.                       *)
(***************************************************************************)
Signer == [address |-> "client"]

\* The transfers of the table a builder can still produce for these fields
Transfers(L, sender, to, asset, amount) ==
    {t \in TxIds \ L.executed :
        TxTable(t) = [sender |-> sender, to |-> to, asset |-> asset, amount |-> amount]}

\* The sum of the balances of the first n coins
RECURSIVE TotalOf(_, _)
TotalOf(coins, n) == IF n = 0 THEN 0 ELSE TotalOf(coins, n - 1) + coins[n].balance

\* for (const coin of coins.data): the number of coins pushed when the loop
\* ends, the coins before coin i not having reached the amount
RECURSIVE SelectLoop(_, _, _)
SelectLoop(coins, i, amount) ==
    IF i > Len(coins) THEN Len(coins)
    ELSE IF TotalOf(coins, i) >= amount THEN i
    ELSE SelectLoop(coins, i + 1, amount)

\* Mutant: every coin of the list is selected
CoinSelectionAll(coins, amount) ==
    IF Len(coins) = 0 THEN Throw("No coins found")
    ELSE IF TotalOf(coins, Len(coins)) < amount THEN Throw("Insufficient balance")
    ELSE Ret([i \in 1..Len(coins) |-> coins[i].coinObjectId])

\* The coins selected for a custom coin transfer of amount, or the error
CoinSelection(coins, amount) ==
    IF Len(coins) = 0 THEN Throw("No coins found")
    ELSE IF TotalOf(coins, SelectLoop(coins, 1, amount)) < amount
    THEN Throw("Insufficient balance")
    ELSE Ret([i \in 1..SelectLoop(coins, 1, amount) |-> coins[i].coinObjectId])

\* client.getCoins({owner, coinType}): the balance of the owner, held in one coin
getCoins(L, owner, asset) ==
    IF L.balance[<<owner, asset>>] = 0 THEN <<>>
    ELSE <<[coinObjectId |-> "c1", balance |-> L.balance[<<owner, asset>>]]>>

\* client.getCoins and the coin selection of a custom coin
SelectCoins(L, owner, asset, amount, rpc) ==
    IF asset = SUI THEN Ret(TRUE)
    ELSE IF rpc = "down" THEN Throw("fetch failed")
    ELSE IF ~Returned(CoinSelection(getCoins(L, owner, asset), amount))
    THEN CoinSelection(getCoins(L, owner, asset), amount)
    ELSE Ret(TRUE)

\* tx.build({ client }): resolves the gas and the inputs against the ledger
BuildTransaction(L, owner, asset, amount, rpc) ==
    IF rpc = "down" THEN Throw("fetch failed")
    ELSE IF L.balance[<<owner, asset>>] < amount THEN Throw("Dry run failed")
    ELSE Ret(TRUE)

\* Mutant: the payload always names the native asset
SignedPayloadNativeAsset(r, t) ==
    JSObject([scheme |-> "exact", network |-> Prop(r, "network"),
              transaction |-> toB64(t), signature |-> SignatureOf(t),
              amount |-> Prop(r, "maxAmountRequired"), payTo |-> Prop(r, "payTo"),
              asset |-> SUI])

\* The payload returned once the transaction t is built and signed
SignedPayload(r, t) ==
    JSObject([scheme |-> "exact", network |-> Prop(r, "network"),
              transaction |-> toB64(t), signature |-> SignatureOf(t),
              amount |-> Prop(r, "maxAmountRequired"), payTo |-> Prop(r, "payTo"),
              asset |-> Prop(r, "asset")])

\* What precedes the signing: the error that ends the call, or Ret(TRUE)
PaymentPreparation(r, signer, rpcUrl, L, rpc) ==
    IF r.type = "null" THEN Throw("TypeError")
    ELSE IF ~Returned(getSuiClient(Prop(r, "network"), rpcUrl))
    THEN getSuiClient(Prop(r, "network"), rpcUrl)
    ELSE IF ~Returned(BigIntProp(r, "maxAmountRequired")) THEN BigIntProp(r, "maxAmountRequired")
    ELSE IF ~Returned(SelectCoins(L, signer.address, Prop(r, "asset"),
                                  BigIntProp(r, "maxAmountRequired").v, rpc))
    THEN SelectCoins(L, signer.address, Prop(r, "asset"),
                     BigIntProp(r, "maxAmountRequired").v, rpc)
    ELSE BuildTransaction(L, signer.address, Prop(r, "asset"),
                          BigIntProp(r, "maxAmountRequired").v, rpc)

\* createAndSignPayment: the outcomes it can have, one for each transaction
\* the builder can produce
createAndSignPayment(r, signer, rpcUrl, L, rpc) ==
    IF ~Returned(PaymentPreparation(r, signer, rpcUrl, L, rpc))
    THEN {PaymentPreparation(r, signer, rpcUrl, L, rpc)}
    ELSE {Ret(SignedPayload(r, t)) :
            t \in Transfers(L, signer.address, Prop(r, "payTo"), Prop(r, "asset"),
                            BigIntProp(r, "maxAmountRequired").v)}

\* Mutant: the payment is encoded without JSON.stringify
HeaderOfNoStringify(o) == IF Returned(o) THEN Ret(BufferToBase64(o.v)) ELSE o

\* Buffer.from(JSON.stringify(payment)).toString("base64") of the payment
\* createAndSignPayment resolved to; its rejection is passed on
HeaderOf(o) == IF Returned(o) THEN Ret(BufferToBase64(JSONstringify(o.v))) ELSE o

createPaymentHeader(r, signer, rpcUrl, L, rpc) ==
    {HeaderOf(o) : o \in createAndSignPayment(r, signer, rpcUrl, L, rpc)}

\* Mutant: an empty accepts list falls back to [parsed]
AcceptsOfEmptyFallsBack(parsed) ==
    IF parsed.type = "null" THEN Throw("TypeError")
    ELSE IF HasProp(parsed, "accepts") /\ Len(parsed.props.accepts) > 0
    THEN Ret(parsed.props.accepts)
    ELSE Ret(<<parsed>>)

\* parsed.accepts || [parsed]
AcceptsOf(parsed) ==
    IF parsed.type = "null" THEN Throw("TypeError")
    ELSE IF HasProp(parsed, "accepts") THEN Ret(parsed.props.accepts)
    ELSE Ret(<<parsed>>)

\* catch (error) { throw new Error(message) }
DecodeFailure(out, message) == IF Returned(out) THEN out ELSE Throw(message)

decodeXPaymentRequired(header) ==
    DecodeFailure(IF Returned(JSONparse(BufferFromBase64(header)))
                  THEN AcceptsOf(JSONparse(BufferFromBase64(header)).v)
                  ELSE JSONparse(BufferFromBase64(header)),
                  "Invalid payment required header format")

decodeXPaymentResponse(header) ==
    DecodeFailure(JSONparse(BufferFromBase64(header)),
                  "Invalid payment response header format")

\* response.headers.get(name): null when there is no such header
HeadersGet(headers, name) ==
    IF \E h \in headers : h[1] = name
    THEN (CHOOSE h \in headers : h[1] = name)[2]
    ELSE NoHeader

NoMaxValue == [given |-> FALSE]

MaxValue(n) == [given |-> TRUE, v |-> n]

\* Mutant: the selector is not consulted
SelectRequirementAlwaysFirst(requirements, selector) ==
    IF Len(requirements) = 0 THEN JSUndefined ELSE requirements[1]

\* paymentRequirementsSelector ? paymentRequirementsSelector(requirements) : requirements[0]
SelectRequirement(requirements, selector) ==
    IF selector = "nothing" \/ Len(requirements) = 0 THEN JSUndefined
    ELSE IF selector = "last" THEN requirements[Len(requirements)]
    ELSE requirements[1]

\* Mutant: an amount equal to maxValue is refused too
MaxValueCheckInclusive(r, maxValue) ==
    IF ~maxValue.given THEN Ret(TRUE)
    ELSE IF ~Returned(BigIntProp(r, "maxAmountRequired")) THEN BigIntProp(r, "maxAmountRequired")
    ELSE IF BigIntProp(r, "maxAmountRequired").v >= maxValue.v
    THEN Throw("Payment amount exceeds maximum allowed value")
    ELSE Ret(TRUE)

\* requiredAmount > maxValue, when maxValue is given
MaxValueCheck(r, maxValue) ==
    IF ~maxValue.given THEN Ret(TRUE)
    ELSE IF ~Returned(BigIntProp(r, "maxAmountRequired")) THEN BigIntProp(r, "maxAmountRequired")
    ELSE IF BigIntProp(r, "maxAmountRequired").v > maxValue.v
    THEN Throw("Payment amount exceeds maximum allowed value")
    ELSE Ret(TRUE)

\* decodeXPaymentRequired of the header, then the empty-list check
RequirementsOf(header) ==
    IF ~Returned(decodeXPaymentRequired(header)) THEN decodeXPaymentRequired(header)
    ELSE IF Len(decodeXPaymentRequired(header).v) = 0
    THEN Throw("No payment requirements provided")
    ELSE decodeXPaymentRequired(header)

\* From the x-payment-required header of a 402 to the selected requirement
RequirementToPay(response, selector) ==
    IF HeaderMissing(HeadersGet(response.headers, "x-payment-required"))
    THEN Throw("402 status but no x-payment-required header found")
    ELSE IF ~Returned(RequirementsOf(HeadersGet(response.headers, "x-payment-required")))
    THEN RequirementsOf(HeadersGet(response.headers, "x-payment-required"))
    ELSE Ret(SelectRequirement(
                RequirementsOf(HeadersGet(response.headers, "x-payment-required")).v,
                selector))

\* The maxValue check and createPaymentHeader for the selected requirement
PayRequirement(r, maxValue, L, rpc) ==
    IF Falsy(r) THEN {Throw("No suitable payment requirement found")}
    ELSE IF ~Returned(MaxValueCheck(r, maxValue)) THEN {MaxValueCheck(r, maxValue)}
    ELSE createPaymentHeader(r, Signer, Undefined, L, rpc)

\* What the wrapper does with a 402: the outcomes are Ret(header), to retry
\* with that x-payment header, or the error thrown
PaymentForChallenge(response, maxValue, selector, L, rpc) ==
    IF ~Returned(RequirementToPay(response, selector))
    THEN {RequirementToPay(response, selector)}
    ELSE PayRequirement(RequirementToPay(response, selector).v, maxValue, L, rpc)

\* createPaymentHeader is reached: every check before it has passed
PaymentAttempted(response, maxValue, selector) ==
    /\ Returned(RequirementToPay(response, selector))
    /\ ~Falsy(RequirementToPay(response, selector).v)
    /\ Returned(MaxValueCheck(RequirementToPay(response, selector).v, maxValue))

\* The log line about the x-payment-response header of the final response
ReceiptLog(response) ==
    IF HeaderMissing(HeadersGet(response.headers, "x-payment-response")) THEN {}
    ELSE IF /\ Returned(decodeXPaymentResponse(HeadersGet(response.headers,
                                                        "x-payment-response")))
            /\ decodeXPaymentResponse(HeadersGet(response.headers,
                                                 "x-payment-response")).v.type # "null"
    THEN {"Payment successful"}
    ELSE {"Failed to decode payment response"}

MaxFetches == 1

IdleClient ==
    [pc |-> "idle", fetches |-> 0, target |-> "none", req |-> NoRequest,
     maxValue |-> NoMaxValue, selector |-> "none", slot |-> "none",
     first |-> NoResponse, response |-> NoResponse, error |-> "none",
     retried |-> FALSE, paymentHeader |-> NoHeader, sent |-> <<>>, payments |-> 0,
     handled |-> FALSE, handlerStatus |-> 0, log |-> {}]

\* The wrapper is waiting for the answer of the request in slot s
Awaits(s) ==
    client.pc \in {"first", "retry"} /\ client.target = "middleware" /\ client.slot = s

(***************************************************************************)
(* The steps of one request through the middleware.                        *)
(***************************************************************************)
Receive(s) ==
    /\ mw[s].pc = "idle"
    /\ served < MaxRequests
    /\ \E rq \in RequestMenu : mw' = [mw EXCEPT ![s] = MiddlewareEntry(config, rq)]
    /\ served' = served + 1
    /\ UNCHANGED <<ledger, vcall, config, client>>

Verdict(out) == IF ~Returned(out) THEN "threw" ELSE IF out.v THEN "true" ELSE "false"

\* isValid = await verifyPayment(paymentPayload, paymentRequirement, rpcUrl)
\* The request once verifyPayment has resolved to v: isValid = v, or the
\* catch block
LocallyVerified(c, v) ==
    IF Returned(v.out)
    THEN AfterVerify([c EXCEPT !.verifyCalls = @ + 1, !.verdict = Verdict(v.out)], v.out.v)
    ELSE CatchBlock([c EXCEPT !.verifyCalls = @ + 1, !.verdict = Verdict(v.out)], "verify")

VerifyLocally(s) ==
    /\ mw[s].pc = "verifying"
    /\ ~config.facilitator.given
    /\ \E rpc \in {"up", "down"} :
        \E v \in {verifyPayment(mw[s].paymentPayload, mw[s].paymentRequirement,
                                RpcUrl(config), ledger, rpc)} :
            /\ mw' = [mw EXCEPT ![s] = LocallyVerified(mw[s], v)]
            /\ ledger' = v.ledger
    /\ UNCHANGED <<vcall, config, served, client>>

\* JSON.stringify({ paymentPayload, paymentRequirement }), parsed by express.json()
VerifyRequestBody(c) ==
    JSONparse(JSONstringify(JSObject([paymentPayload |-> c.paymentPayload,
                                      paymentRequirement |-> c.paymentRequirement]))).v

\* isValid = verifyResponse.ok; the answer is logged when it is not
AfterVerifyAnswer(c, status) ==
    AfterVerify([c EXCEPT !.log = IF VerifyResponseOk(status) THEN @
                                  ELSE @ \cup {"Facilitator verification failed"}],
                VerifyResponseOk(status))

\* facilitator.timeout || 30000, in milliseconds
FacilitatorTimeout(f) ==
    IF "timeout" \in DOMAIN f /\ f.timeout # 0 THEN f.timeout ELSE 30000

\* Mutant: a verify call that is not answered is awaited for ever
DelegatedVerifiedHanging(c, answer, net) ==
    IF net = "answered"
    THEN AfterVerifyAnswer([c EXCEPT !.verifyCalls = @ + 1, !.verdict = answer.verdict,
                                     !.verifyStatus = answer.status],
                           answer.status)
    ELSE IF net = "timeout" THEN [c EXCEPT !.verifyCalls = @ + 1, !.pc = "pending"]
    ELSE CatchBlock([c EXCEPT !.verifyCalls = @ + 1], "transport")

\* The request once the fetch of /verify has resolved with the facilitator's
\* answer, or rejected (connection refused, or aborted by the timeout)
DelegatedVerified(c, answer, net) ==
    IF net = "answered"
    THEN AfterVerifyAnswer([c EXCEPT !.verifyCalls = @ + 1, !.verdict = answer.verdict,
                                     !.verifyStatus = answer.status],
                           answer.status)
    ELSE CatchBlock([c EXCEPT !.verifyCalls = @ + 1], "transport")

\* await fetch(`${facilitator.url}/verify`, ...): answered, refused, or aborted
\* by AbortSignal.timeout
VerifyThroughFacilitator(s) ==
    /\ mw[s].pc = "verifying"
    /\ config.facilitator.given
    /\ \E net \in {"answered", "refused", "timeout"}, rpc \in {"up", "down"} :
        \E answer \in {FacilitatorVerify(VerifyRequestBody(mw[s]), ledger, rpc)} :
            /\ mw' = [mw EXCEPT ![s] = DelegatedVerified(mw[s], answer, net)]
            /\ ledger' = IF net = "refused" THEN ledger ELSE answer.ledger
    /\ UNCHANGED <<vcall, config, served, client>>

HandlerText == JSONstringify(JSObject([data |-> "resource"]))

\* The route handler answers: through res.json/res.send, or res.end directly
\* Mutant: routeExecuted and routeStatusCode are kept once for all requests
HandlerRespondsSharedFlags(s) ==
    /\ mw[s].pc = "handling"
    /\ \E status \in {200, 500}, via \in {"json", "end"} :
        \E seen \in {mw[s].wrapped /\ via = "json"} :
        mw' = [t \in Slots |->
                 IF t = s
                 THEN [mw[s] EXCEPT !.pc = IF mw[s].finishListener THEN "sent" ELSE "done",
                                    !.statusCode = status, !.headersSent = TRUE,
                                    !.delivered = [status |-> status, body |-> HandlerText,
                                                   headers |-> mw[s].headers],
                                    !.routeExecuted = IF seen THEN TRUE ELSE @,
                                    !.routeStatusCode = IF seen THEN status ELSE @]
                 ELSE [mw[t] EXCEPT !.routeExecuted = IF seen THEN TRUE ELSE @,
                                    !.routeStatusCode = IF seen THEN status ELSE @]]
    /\ UNCHANGED <<ledger, vcall, config, served, client>>

HandlerResponds(s) ==
    /\ mw[s].pc = "handling"
    /\ \E status \in {200, 500}, via \in {"json", "end"} :
        \E seen \in {mw[s].wrapped /\ via = "json"} :
        mw' = [mw EXCEPT ![s] =
                 [@ EXCEPT !.pc = IF mw[s].finishListener THEN "sent" ELSE "done",
                           !.statusCode = status, !.headersSent = TRUE,
                           !.delivered = [status |-> status, body |-> HandlerText,
                                          headers |-> mw[s].headers],
                           !.routeExecuted = IF seen THEN TRUE ELSE @,
                           !.routeStatusCode = IF seen THEN status ELSE @]]
    /\ UNCHANGED <<ledger, vcall, config, served, client>>

\* Mutant: settlement whatever the status the handler answered with
FinishAnyStatus(s) ==
    /\ mw[s].pc = "sent"
    /\ mw' = [mw EXCEPT ![s] =
                IF @.routeExecuted /\ config.facilitator.given
                THEN [@ EXCEPT !.pc = "settling", !.settleCalls = @ + 1]
                ELSE [@ EXCEPT !.pc = "done"]]
    /\ UNCHANGED <<ledger, vcall, config, served, client>>

\* res.on("finish"): settlement starts when the response has been sent
Finish(s) ==
    /\ mw[s].pc = "sent"
    /\ mw' = [mw EXCEPT ![s] =
                IF @.routeExecuted /\ @.routeStatusCode < 400 /\ config.facilitator.given
                THEN [@ EXCEPT !.pc = "settling", !.settleCalls = @ + 1]
                ELSE [@ EXCEPT !.pc = "done"]]
    /\ UNCHANGED <<ledger, vcall, config, served, client>>

\* JSON.stringify({ paymentPayload }), parsed by express.json()
SettleRequestBody(c) ==
    JSONparse(JSONstringify(JSObject([paymentPayload |-> c.paymentPayload]))).v

\* Mutant: a failed settlement turns the answer into a 500
AfterSettleAnswerRevoking(c, answer, header) ==
    IF ~HttpOk(answer.status)
    THEN [c EXCEPT !.pc = "done", !.log = @ \cup {"Settlement failed"},
                   !.delivered = [@ EXCEPT !.status = 500]]
    ELSE IF ~Returned(header)
    THEN [c EXCEPT !.pc = "done", !.log = @ \cup {"Payment settlement error"}]
    ELSE [header.v EXCEPT !.pc = "done", !.log = @ \cup {"Payment settled"}]

\* Buffer.from(JSON.stringify(paymentResponse)).toString("base64")
ReceiptHeader(paymentResponse) == BufferToBase64(JSONstringify(paymentResponse))

\* What follows the answer of /settle: the receipt header, or a log line
AfterSettleAnswer(c, answer, header) ==
    IF ~HttpOk(answer.status)
    THEN [c EXCEPT !.pc = "done", !.log = @ \cup {"Settlement failed"}]
    ELSE IF ~Returned(header)
    THEN [c EXCEPT !.pc = "done", !.log = @ \cup {"Payment settlement error"}]
    ELSE [header.v EXCEPT !.pc = "done", !.log = @ \cup {"Payment settled"}]

\* await fetch(`${facilitator.url}/settle`, ...) and what follows it
SettleThroughFacilitator(s) ==
    /\ mw[s].pc = "settling"
    /\ \E net \in {"answered", "refused", "timeout"}, rpc \in {"up", "down"} :
        \E answer \in {FacilitatorSettle(SettleRequestBody(mw[s]), ledger, rpc, 1)} :
            /\ mw' = [mw EXCEPT ![s] =
                        IF net = "answered"
                        THEN AfterSettleAnswer(@, answer,
                                 setHeader(@, "x-payment-response",
                                           ReceiptHeader(answer.body)))
                        ELSE [@ EXCEPT !.pc = "done",
                                       !.log = @ \cup {"Payment settlement error"}]]
            /\ ledger' = IF net = "refused" THEN ledger ELSE answer.ledger
    /\ UNCHANGED <<vcall, config, served, client>>

\* The request is over and its context is dropped
Retire(s) ==
    /\ mw[s].pc = "done"
    /\ ~Awaits(s)
    /\ mw' = [mw EXCEPT ![s] = Fresh]
    /\ UNCHANGED <<ledger, vcall, config, served, client>>

(***************************************************************************)
(* The steps of one call of the wrapped fetch.                             *)
(***************************************************************************)
ClientRequests ==
    {Request("GET", p, "", h) :
        p \in {"/weather", "/premium", "/public"},
        h \in {NoHeader, EncodeHeader(PaidSui), GarbageHeader}}
    \cup {Request("POST", "/weather", "", NoHeader)}

MaxValues == {NoMaxValue, MaxValue(5), MaxValue(10)}

Selectors == {"none", "last", "nothing"}

Requirement(amount, asset) ==
    JSObject([scheme |-> "exact", network |-> "sui-localnet", maxAmountRequired |-> amount,
              resource |-> "http://other/resource", payTo |-> PayTo,
              maxTimeoutSeconds |-> 60, asset |-> asset])

Response(status, headers) == [status |-> status, body |-> HandlerText, headers |-> headers]

\* What a server other than the middleware may answer to the first request
OtherFirstAnswers ==
    {Response(200, {}), Response(402, {})}
    \cup {Response(402, {<<"x-payment-required", h>>}) :
            h \in {EncodeHeader(JSObject([accepts |-> <<Requirement(<<"1", "0">>, SUI),
                                                        Requirement(<<"1", "0">>, USDC)>>])),
                   EncodeHeader(JSObject([accepts |-> <<Requirement(<<"1", "0">>, SUI),
                                                        Requirement(<<"3", "0">>, SUI)>>])),
                   EncodeHeader(Requirement(<<"3", "0">>, SUI)),
                   EncodeHeader(Requirement(<<"x">>, SUI)),
                   EncodeHeader(JSObject([accepts |-> <<>>])),
                   EncodeHeader(JSNull),
                   GarbageHeader}}

\* What it may answer to the retry
OtherRetryAnswers ==
    {Response(200, {}), Response(402, {})}
    \cup {Response(200, {<<"x-payment-response", h>>}) :
            h \in {EncodeHeader(JSObject([transactionDigest |-> "t1"])), GarbageHeader}}

\* The answer the wrapper's await resolves to
AnswersTo(c, others) ==
    IF c.target = "middleware" THEN {mw[c.slot].delivered} \ {NoResponse} ELSE others

\* Mutant: the body of the response is replaced
ReturnResponseRewritten(c, response) ==
    [c EXCEPT !.pc = "returned", !.response = [response EXCEPT !.body = GarbageText],
              !.handled = c.target = "middleware" /\ mw[c.slot].nextCalls > 0,
              !.handlerStatus = IF c.target = "middleware" THEN mw[c.slot].statusCode ELSE 0]

\* return response
ReturnResponse(c, response) ==
    [c EXCEPT !.pc = "returned", !.response = response,
              !.handled = c.target = "middleware" /\ mw[c.slot].nextCalls > 0,
              !.handlerStatus = IF c.target = "middleware" THEN mw[c.slot].statusCode ELSE 0]

\* let response = await fetchFn(input, init)
ClientFetch ==
    /\ client.pc \in {"idle", "returned", "threw"}
    /\ client.fetches < MaxFetches
    /\ \E rq \in ClientRequests, mv \in MaxValues, sel \in Selectors,
          target \in {"middleware", "other"}, s \in Slots :
        /\ IF target = "middleware" THEN mw[s].pc = "idle" ELSE s = "a"
        /\ mw' = IF target = "middleware" THEN [mw EXCEPT ![s] = MiddlewareEntry(config, rq)]
                 ELSE mw
        /\ client' = [IdleClient EXCEPT !.pc = "first", !.fetches = client.fetches + 1,
                                        !.target = target, !.req = rq, !.maxValue = mv,
                                        !.selector = sel, !.sent = <<rq>>,
                                        !.slot = IF target = "middleware" THEN s ELSE "none"]
    /\ UNCHANGED <<ledger, vcall, config, served>>

\* The retry: fetchFn(input, { ...init, headers: newHeaders })
Retry(c, response, header, s) ==
    /\ IF c.target = "middleware" THEN mw[s].pc = "idle" ELSE s = "a"
    /\ mw' = IF c.target = "middleware"
             THEN [mw EXCEPT ![s] = MiddlewareEntry(config, [c.req EXCEPT !.xpayment = header])]
             ELSE mw
    /\ client' = [c EXCEPT !.pc = "retry", !.first = response, !.retried = TRUE,
                           !.paymentHeader = header, !.payments = @ + 1,
                           !.sent = Append(@, [c.req EXCEPT !.xpayment = header]),
                           !.slot = IF c.target = "middleware" THEN s ELSE "none"]

\* The first response arrives: returned as it is unless its status is 402,
\* else paid for and retried, or the call throws
ClientFirstResponse ==
    /\ client.pc = "first"
    /\ \E response \in AnswersTo(client, OtherFirstAnswers), rpc \in {"up", "down"} :
        IF response.status # 402
        THEN /\ client' = ReturnResponse([client EXCEPT !.first = response], response)
             /\ mw' = mw
        ELSE \E o \in PaymentForChallenge(response, client.maxValue, client.selector,
                                          ledger, rpc) :
                IF Returned(o) THEN \E s \in Slots : Retry(client, response, o.v, s)
                ELSE /\ client' = [client EXCEPT
                                        !.pc = "threw", !.first = response, !.error = o.e,
                                        !.payments =
                                            IF PaymentAttempted(response, client.maxValue,
                                                                client.selector)
                                            THEN @ + 1 ELSE @]
                     /\ mw' = mw
    /\ UNCHANGED <<ledger, vcall, config, served>>

\* Mutant: a 402 to the retry is handled as the first one was
ClientRetryResponseLooping ==
    /\ client.pc = "retry"
    /\ \E response \in AnswersTo(client, OtherRetryAnswers) :
        client' = IF response.status = 402 /\ client.target = "other"
                  THEN [client EXCEPT !.pc = "first"]
                  ELSE ReturnResponse([client EXCEPT !.log = @ \cup ReceiptLog(response)],
                                      response)
    /\ UNCHANGED <<ledger, vcall, config, mw, served>>

\* The response of the retry arrives: the receipt header is logged and the
\* response returned
ClientRetryResponse ==
    /\ client.pc = "retry"
    /\ \E response \in AnswersTo(client, OtherRetryAnswers) :
        client' = ReturnResponse([client EXCEPT !.log = @ \cup ReceiptLog(response)],
                                 response)
    /\ UNCHANGED <<ledger, vcall, config, mw, served>>

Init ==
    /\ ledger = InitLedger
    /\ vcall = NoCall
    /\ config \in Configs
    /\ mw = [s \in Slots |-> Fresh]
    /\ served = 0
    /\ client = IdleClient

Next ==
    \E s \in Slots :
        \/ Receive(s)
        \/ VerifyLocally(s)
        \/ VerifyThroughFacilitator(s)
        \/ HandlerResponds(s)
        \/ Finish(s)
        \/ SettleThroughFacilitator(s)
        \/ Retire(s)

Spec == Init /\ [][Next]_vars

\* The wrapped fetch as the only source of requests
NextE2E ==
    \/ ClientFetch
    \/ ClientFirstResponse
    \/ ClientRetryResponse
    \/ \E s \in Slots :
        \/ VerifyLocally(s)
        \/ VerifyThroughFacilitator(s)
        \/ HandlerResponds(s)
        \/ Finish(s)
        \/ SettleThroughFacilitator(s)
        \/ Retire(s)

SpecE2E == Init /\ [][NextE2E]_vars

(***************************************************************************)
(* What the claims speak of.  The policy is read here from the route       *)
(* table itself, not through the middleware's own test.                    *)
(***************************************************************************)
CoveredMethods(path) ==
    IF "methods" \in DOMAIN Routes(path)
    THEN {Routes(path).methods[i] : i \in 1..Len(Routes(path).methods)}
    ELSE {"GET"}

Covered(rq) == rq.path \in RoutePaths /\ rq.method \in CoveredMethods(rq.path)

ConfiguredCoinType ==
    IF config.x402Config.given THEN config.x402Config.tokenConfig.coinType ELSE SUI

Active == {s \in Slots : mw[s].pc # "idle"}

\* The parsed body of the answer the client got
Answer(c) == JSONparse(c.delivered.body).v

AnsweredError(c, code, message) ==
    /\ c.pc = "done"
    /\ c.delivered.status = code
    /\ Returned(JSONparse(c.delivered.body))
    /\ Prop(Answer(c), "error") = message

Undecodable(h) == ~HeaderMissing(h) /\ ~Returned(JSONparse(BufferFromBase64(h)))

\* C1: a request to a covered route and method that carries no x-payment
\* header is answered 402 with an accepts list holding a requirement of the
\* route's price and the configured coin type; the handler is not invoked
\* and no verify or settle call is made.
C1_ChallengeWithoutHeader ==
    \A s \in Active :
        (Covered(mw[s].req) /\ mw[s].req.xpayment = NoHeader) =>
            /\ mw[s].pc = "done"
            /\ mw[s].delivered.status = 402
            /\ Returned(JSONparse(mw[s].delivered.body))
            /\ HasProp(Answer(mw[s]), "accepts")
            /\ \E i \in DOMAIN Answer(mw[s]).props.accepts :
                /\ Answer(mw[s]).props.accepts[i].props.maxAmountRequired
                     = Routes(mw[s].req.path).price
                /\ Answer(mw[s]).props.accepts[i].props.asset = ConfiguredCoinType
            /\ mw[s].nextCalls = 0
            /\ mw[s].verifyCalls = 0
            /\ mw[s].settleCalls = 0

\* C1 witness: a challenge issued under a custom token configuration
C1_Witness ==
    \E s \in Active :
        /\ Covered(mw[s].req)
        /\ mw[s].req.xpayment = NoHeader
        /\ mw[s].req.path = "/premium"
        /\ ConfiguredCoinType = USDC
        /\ mw[s].delivered.status = 402

\* C2: on a covered route the handler is invoked only after verification of
\* the request's payload returned success; every other path (decode failure,
\* mismatch, failed simulation, facilitator non-2xx answer, transport fault
\* or timeout) ends with a 402 and the handler is never invoked.
C2_FailClosed ==
    \A s \in Active :
        Covered(mw[s].req) =>
            /\ mw[s].nextCalls > 0 => mw[s].verdict = "true"
            /\ (mw[s].verdict # "true" /\ mw[s].pc # "verifying") =>
                   /\ mw[s].pc = "done"
                   /\ mw[s].delivered.status = 402
                   /\ mw[s].nextCalls = 0

\* C2 witness: the facilitator could not be reached and the request ended
\* with a 402 without the handler having run
C2_Witness ==
    \E s \in Active :
        /\ Covered(mw[s].req)
        /\ mw[s].fault = "transport"
        /\ mw[s].pc = "done"
        /\ mw[s].delivered.status = 402
        /\ mw[s].nextCalls = 0

VerificationReportedFailure(c) ==
    \/ c.verdict = "false"
    \/ c.verifyStatus # 0 /\ ~HttpOk(c.verifyStatus)

\* C7: when the payload decodes and verification reports failure (locally,
\* or by a non-2xx answer of /verify), the answer is 402 with the error
\* "Payment verification failed" and the request ends there.
C7_VerificationFailed ==
    \A s \in Active :
        VerificationReportedFailure(mw[s]) =>
            /\ AnsweredError(mw[s], 402, "Payment verification failed")
            /\ mw[s].nextCalls = 0
            /\ mw[s].settleCalls = 0
            /\ mw[s].written = 1

\* C7 witness: a payload of amount 5 on a route priced 10 got that answer
C7_Witness ==
    \E s \in Active :
        /\ mw[s].paymentPayload = PaidTooLittle
        /\ mw[s].req.path = "/weather"
        /\ VerificationReportedFailure(mw[s])
        /\ AnsweredError(mw[s], 402, "Payment verification failed")

\* C8: when the facilitator's /verify fails at the transport level, the
\* answer is 402 with the verification-failed error, the handler is not
\* invoked and no exception escapes the middleware.
C8_TransportFaultIsVerificationFailure ==
    \A s \in Active :
        mw[s].fault = "transport" =>
            /\ AnsweredError(mw[s], 402, "Payment verification failed")
            /\ mw[s].nextCalls = 0
            /\ ~mw[s].escaped

\* C8 witness: the facilitator was unreachable and the answer carried the
\* catch block's message
C8_Witness ==
    \E s \in Active :
        /\ mw[s].fault = "transport"
        /\ mw[s].verifyCalls = 1
        /\ AnsweredError(mw[s], 402, "Invalid payment format")
        /\ mw[s].nextCalls = 0

\* C9: an x-payment header that cannot be decoded is answered 402 with
\* "Invalid payment format", with no verify or settle call and without the
\* handler; and that answer is given for decode failures only.
C9_InvalidFormatIffUndecodable ==
    \A s \in Active :
        Covered(mw[s].req) =>
            /\ Undecodable(mw[s].req.xpayment) =>
                   /\ AnsweredError(mw[s], 402, "Invalid payment format")
                   /\ mw[s].verifyCalls = 0
                   /\ mw[s].settleCalls = 0
                   /\ mw[s].nextCalls = 0
            /\ AnsweredError(mw[s], 402, "Invalid payment format") =>
                   Undecodable(mw[s].req.xpayment)

\* C9 witness: a header that decodes to a payload was answered with
\* "Invalid payment format" after a verify call
C9_Witness ==
    \E s \in Active :
        /\ Covered(mw[s].req)
        /\ mw[s].req.xpayment = EncodeHeader(PaidSui)
        /\ mw[s].paymentPayload = PaidSui
        /\ mw[s].verifyCalls = 1
        /\ AnsweredError(mw[s], 402, "Invalid payment format")

\* C10: a request whose path is no key of the policy, or whose method the
\* route does not cover, is passed on: next() once, no answer written by the
\* middleware, req and res untouched, no verify or settle call, with or
\* without an x-payment header.
C10_PassThrough ==
    \A s \in Active :
        ~Covered(mw[s].req) =>
            /\ mw[s].nextCalls = 1
            /\ mw[s].written = 0
            /\ mw[s].x402Payment = JSUndefined
            /\ ~mw[s].wrapped
            /\ ~mw[s].finishListener
            /\ mw[s].headers = {}
            /\ mw[s].verifyCalls = 0
            /\ mw[s].settleCalls = 0
            /\ mw[s].log = {}

\* C10 witness: a POST carrying a payment to a route that covers GET only
C10_Witness ==
    \E s \in Active :
        /\ mw[s].req.path = "/weather"
        /\ mw[s].req.method = "POST"
        /\ mw[s].req.xpayment = EncodeHeader(PaidSui)
        /\ mw[s].nextCalls = 1
        /\ mw[s].pc = "done"

\* The middleware has finished its part of the request in slot s
Decided(s) == mw[s].pc \notin {"idle", "verifying"}

\* C11: when verification succeeds the decoded payload is attached to the
\* request and next() is called exactly once; for every request the
\* middleware either calls next() once or writes one 402, never both and
\* never neither.
C11_NextOrOne402 ==
    \A s \in Active :
        /\ mw[s].verdict = "true" =>
               /\ mw[s].x402Payment = mw[s].paymentPayload
               /\ mw[s].paymentPayload
                    = JSONparse(BufferFromBase64(mw[s].req.xpayment)).v
               /\ mw[s].nextCalls = 1
               /\ mw[s].written = 0
        /\ mw[s].nextCalls + mw[s].written <= 1
        /\ Decided(s) => mw[s].nextCalls + mw[s].written = 1
        /\ mw[s].written = 1 => mw[s].delivered.status = 402

\* C11 witness: a verified request, its payload attached, passed on once
C11_Witness ==
    \E s \in Active :
        /\ mw[s].verdict = "true"
        /\ mw[s].x402Payment = PaidSui
        /\ mw[s].nextCalls = 1
        /\ mw[s].written = 0
        /\ mw[s].pc = "handling"

\* The handler of a verified request has answered with a status below 400
\* and the "finish" listener has run to its end
DeliveredAndOver(s) ==
    /\ mw[s].pc = "done"
    /\ mw[s].verdict = "true"
    /\ mw[s].nextCalls = 1
    /\ mw[s].delivered.status < 400

\* C12: for every verified request whose handler answered with a status
\* below 400 the settler is called for the request's payload, through
\* /settle of the facilitator when one is configured and in-process when
\* none is; stated of the request once everything it started has ended.
C12_SettledWhenDelivered ==
    \A s \in Active : DeliveredAndOver(s) => mw[s].settleCalls >= 1

\* C12 witness: no facilitator, the resource was delivered to a verified
\* request, and no settle call was made
C12_Witness ==
    \E s \in Active :
        /\ ~config.facilitator.given
        /\ DeliveredAndOver(s)
        /\ mw[s].routeExecuted
        /\ mw[s].settleCalls = 0
        /\ ledger = InitLedger

\* C13: when the handler answered with a status of 400 or more, no settle
\* call is made for the request.
C13_NoSettleOnError ==
    \A s \in Active :
        (mw[s].nextCalls = 1 /\ mw[s].delivered # NoResponse /\ mw[s].delivered.status >= 400)
            => (mw[s].settleCalls = 0 /\ mw[s].pc # "settling")

\* C13 witness: with a facilitator, the handler of a verified request
\* answered 500 through res.json and the request ended without a settle call
C13_Witness ==
    \E s \in Active :
        /\ config.facilitator.given
        /\ mw[s].verdict = "true"
        /\ mw[s].routeExecuted
        /\ mw[s].routeStatusCode = 500
        /\ mw[s].pc = "done"
        /\ mw[s].settleCalls = 0

\* A step of the settlement of slot s
SettleStep(s) == mw[s].pc = "settling" /\ mw'[s].pc # "settling"

\* C14: the settle call starts only after the response has been sent, the
\* answer the client got is not changed by the outcome of the settlement,
\* and a failed settlement is logged only: nothing escapes the middleware.
C14_SettleAfterResponse ==
    /\ [](\A s \in Slots :
            (mw[s].settleCalls > 0 \/ mw[s].pc = "settling") =>
                /\ mw[s].headersSent
                /\ mw[s].delivered # NoResponse
                /\ ~mw[s].escaped)
    /\ [][\A s \in Slots :
            SettleStep(s) =>
                /\ mw'[s].delivered = mw[s].delivered
                /\ mw'[s].statusCode = mw[s].statusCode
                /\ ~mw'[s].escaped
                /\ mw'[s].pc = "done"
                /\ mw'[s].log # mw[s].log]_vars

\* C14 witness: /settle answered with an error after the client had its 200
C14_Witness ==
    \E s \in Active :
        /\ mw[s].pc = "done"
        /\ mw[s].settleCalls = 1
        /\ "Settlement failed" \in mw[s].log
        /\ mw[s].delivered.status = 200
        /\ ~mw[s].escaped

\* C15: each payload is consumed once: of the requests that carry the same
\* x-payment header at most one has its handler invoked and at most one
\* has a settle call submitted.
C15_PayloadConsumedOnce ==
    \A s, t \in Active :
        (s # t /\ ~HeaderMissing(mw[s].req.xpayment)
              /\ mw[s].req.xpayment = mw[t].req.xpayment) =>
            /\ ~(mw[s].nextCalls > 0 /\ mw[t].nextCalls > 0 /\ Covered(mw[s].req)
                 /\ Covered(mw[t].req))
            /\ ~(mw[s].settleCalls > 0 /\ mw[t].settleCalls > 0)

\* C15 witness: a request was verified, served and ended; the same header
\* on another request got the handler invoked again
C15_Witness ==
    \E s, t \in Active :
        /\ s # t
        /\ mw[s].req.xpayment = EncodeHeader(PaidSui)
        /\ mw[t].req.xpayment = EncodeHeader(PaidSui)
        /\ mw[s].pc = "done" /\ mw[s].routeExecuted /\ mw[s].delivered.status = 200
        /\ mw[t].pc = "handling" /\ mw[t].verdict = "true"

\* The caller's wrapped fetch is over: it returned a response or threw
CallOver == client.pc \in {"returned", "threw"}

\* A call against the middleware for a covered route, with no payment header
\* of the caller's own, by a client whose balance covers the route's price
UnpaidCallWithFunds ==
    /\ client.target = "middleware"
    /\ Covered(client.req)
    /\ client.req.xpayment = NoHeader
    /\ Returned(BigInt(Routes(client.req.path).price))
    /\ ledger.balance[<<Signer.address, ConfiguredCoinType>>]
         >= BigInt(Routes(client.req.path).price).v

\* C6: with the middleware as the server and the wrapped fetch as the client,
\* a client with sufficient balance gets a 402 on the first call, pays the
\* first accepted requirement and retries, and the response returned to the
\* caller has the handler's own status and a decodable receipt header.
C6_EndToEndPaidCall ==
    (CallOver /\ UnpaidCallWithFunds) =>
        /\ client.pc = "returned"
        /\ client.first.status = 402
        /\ client.retried
        /\ Returned(JSONparse(BufferFromBase64(client.paymentHeader)))
        /\ Prop(JSONparse(BufferFromBase64(client.paymentHeader)).v, "amount")
             = Routes(client.req.path).price
        /\ client.handled
        /\ client.response.status = client.handlerStatus
        /\ ~HeaderMissing(HeadersGet(client.response.headers, "x-payment-response"))
        /\ Returned(decodeXPaymentResponse(HeadersGet(client.response.headers,
                                                      "x-payment-response")))

\* C6 witness: the call ended on the challenge, which carries no
\* x-payment-required header, without a retry
C6_Witness ==
    /\ CallOver
    /\ UnpaidCallWithFunds
    /\ client.pc = "threw"
    /\ client.first.status = 402
    /\ client.error = "402 status but no x-payment-required header found"
    /\ ~client.retried

\* The first response has been handled
FirstHandled == client.pc \in {"retry", "returned", "threw"}

\* The x-payment-required header of the first response and what it holds
ChallengeHeader == HeadersGet(client.first.headers, "x-payment-required")

ChallengeParsed == JSONparse(BufferFromBase64(ChallengeHeader)).v

Offered ==
    IF HasProp(ChallengeParsed, "accepts") THEN ChallengeParsed.props.accepts
    ELSE <<ChallengeParsed>>

\* The first response is a 402 whose header decodes to a list
ChallengeDecoded ==
    /\ FirstHandled
    /\ client.first.status = 402
    /\ ~HeaderMissing(ChallengeHeader)
    /\ Returned(JSONparse(BufferFromBase64(ChallengeHeader)))
    /\ ChallengeParsed.type = "object"

\* The requirement the caller's policy picks from a list that is not empty
Chosen == IF client.selector = "last" THEN Offered[Len(Offered)] ELSE Offered[1]

HasChoice == ChallengeDecoded /\ Len(Offered) > 0 /\ client.selector # "nothing"

ChosenAmount == BigInt(Chosen.props.maxAmountRequired)

OverBudget == "Payment amount exceeds maximum allowed value"

\* Nothing was built or signed and no second request was sent
NothingPaid ==
    /\ client.payments = 0
    /\ client.paymentHeader = NoHeader
    /\ ~client.retried
    /\ client.sent = <<client.req>>

\* C16: with a maximum spend given, a selected requirement whose amount is
\* greater makes the call throw the over-budget error before a payment is
\* built or signed and before a second request; an equal amount proceeds.
C16_OverBudgetAborts ==
    (HasChoice /\ client.maxValue.given /\ Returned(ChosenAmount)) =>
        /\ ChosenAmount.v > client.maxValue.v =>
               /\ client.pc = "threw"
               /\ client.error = OverBudget
               /\ NothingPaid
        /\ ChosenAmount.v = client.maxValue.v =>
               /\ client.error # OverBudget
               /\ client.payments = 1

\* C16 witness: a requirement of 30 selected under a maximum of 10
C16_Witness ==
    /\ HasChoice
    /\ client.maxValue = MaxValue(10)
    /\ Chosen = Requirement(<<"3", "0">>, SUI)
    /\ client.pc = "threw"
    /\ client.error = OverBudget
    /\ NothingPaid

\* C17: one call makes at most two calls of the underlying fetch and builds
\* at most one payment; the response to the second request is returned
\* whatever its status.
C17_OnePaymentAttempt ==
    /\ [](Len(client.sent) <= 2 /\ client.payments <= 1)
    /\ [][(client.pc = "retry" /\ client'.pc # "retry") =>
            /\ client'.pc = "returned"
            /\ client'.response \in AnswersTo(client, OtherRetryAnswers)
            /\ client'.sent = client.sent
            /\ client'.payments = client.payments]_vars

\* C17 witness: the retry was answered 402 and that 402 was returned
C17_Witness ==
    /\ client.pc = "returned"
    /\ client.retried
    /\ client.response.status = 402
    /\ Len(client.sent) = 2
    /\ client.payments = 1

\* C18: a first response whose status is not 402 is returned as it is after
\* one call of the underlying fetch with the caller's own request: no
\* payment, no x-payment header added.
C18_NoPaymentPath ==
    /\ []((FirstHandled /\ client.first.status # 402) =>
            /\ client.pc = "returned"
            /\ client.response = client.first
            /\ NothingPaid
            /\ client.log = {})
    /\ [][(client.pc # "first" /\ client'.pc = "first" /\ client'.target = "middleware") =>
            mw'[client'.slot].req = client'.req]_vars

\* C18 witness: the caller's own x-payment header went through unchanged
\* and the 200 of the handler was returned
C18_Witness ==
    /\ client.pc = "returned"
    /\ client.target = "middleware"
    /\ client.req.xpayment = EncodeHeader(PaidSui)
    /\ client.first.status = 200
    /\ client.response = client.first
    /\ client.sent = <<client.req>>

\* C19: a 402 whose challenge decodes to an empty list makes the call fail
\* with an error, without a payment and without a second request.
C19_EmptyListFails ==
    (ChallengeDecoded /\ HasProp(ChallengeParsed, "accepts") /\ Len(Offered) = 0) =>
        /\ client.pc = "threw"
        /\ client.error # "none"
        /\ NothingPaid

\* C19 witness: the call threw on an empty accepts list
C19_Witness ==
    /\ ChallengeDecoded
    /\ HasProp(ChallengeParsed, "accepts")
    /\ Len(Offered) = 0
    /\ client.pc = "threw"
    /\ client.error = "No payment requirements provided"

\* The payload of the x-payment header the retry carried
PaidPayload == JSONparse(BufferFromBase64(client.paymentHeader)).v

\* C20: the requirement paid is the first of the list without a selector
\* and the selector's value with one; the maximum is checked against it and
\* the payment is built for it; a selector that returns nothing makes the
\* call fail without a payment.
C20_SelectedRequirementPaid ==
    /\ (ChallengeDecoded /\ Len(Offered) > 0 /\ client.selector = "nothing") =>
           /\ client.pc = "threw"
           /\ client.error = "No suitable payment requirement found"
           /\ NothingPaid
    /\ (HasChoice /\ client.retried) =>
           /\ \A k \in {"network", "payTo", "asset"} :
                  Prop(PaidPayload, k) = Prop(Chosen, k)
           /\ Prop(PaidPayload, "amount") = Prop(Chosen, "maxAmountRequired")
    /\ (HasChoice /\ client.maxValue.given /\ Returned(ChosenAmount)) =>
           (client.error = OverBudget <=> ChosenAmount.v > client.maxValue.v)

\* C20 witness: the selector picked the second requirement of two and the
\* retry carried a payment in that requirement's asset
C20_Witness ==
    /\ HasChoice
    /\ client.selector = "last"
    /\ Len(Offered) = 2
    /\ Offered[1].props.asset = SUI
    /\ Chosen.props.asset = USDC
    /\ client.retried
    /\ Prop(PaidPayload, "asset") = USDC

\* The wrapped fetch got the challenge of the middleware for its request
\* The request of slot s was answered with a challenge
Challenged(s) ==
    /\ s \in Active
    /\ Covered(mw[s].req)
    /\ HeaderMissing(mw[s].req.xpayment)
    /\ mw[s].delivered.status = 402
    /\ Returned(JSONparse(mw[s].delivered.body))
    /\ HasProp(Answer(mw[s]), "accepts")

Issued(s) == Answer(mw[s]).props.accepts[1]

\* C26: the requirement issued in a challenge has maxAmountRequired equal to
\* the route's price unscaled, resource equal to the URL requested (scheme,
\* host, path and query), maxTimeoutSeconds 60, asset equal to the
\* configured coin type (the native asset when no token is configured), and
\* extra.feePayer "facilitator" when a facilitator is configured and no
\* extra otherwise.
C26_IssuedRequirement ==
    \A s \in Slots :
        Challenged(s) =>
            /\ Len(Answer(mw[s]).props.accepts) = 1
            /\ Issued(s).props.maxAmountRequired = Routes(mw[s].req.path).price
            /\ Issued(s).props.resource
                 = "http://localhost:4021" \o mw[s].req.path \o mw[s].req.query
            /\ Issued(s).props.maxTimeoutSeconds = 60
            /\ Issued(s).props.asset = ConfiguredCoinType
            /\ config.facilitator.given =>
                   /\ HasProp(Issued(s), "extra")
                   /\ Issued(s).props.extra = [feePayer |-> "facilitator"]
            /\ ~config.facilitator.given => ~HasProp(Issued(s), "extra")

\* C26 witness: a challenge for a URL with a query, under a facilitator
C26_Witness ==
    \E s \in Slots :
        /\ Challenged(s)
        /\ mw[s].req.query = "?city=sf"
        /\ config.facilitator.given
        /\ Issued(s).props.resource = "http://localhost:4021/weather?city=sf"
        /\ Issued(s).props.extra.feePayer = "facilitator"

\* The request of slot s got as far as a requirement to verify against
HasRequirement(s) == s \in Active /\ mw[s].paymentRequirement # JSUndefined

SameUrl(s, t) ==
    /\ mw[s].req.protocol = mw[t].req.protocol
    /\ mw[s].req.host = mw[t].req.host
    /\ mw[s].req.path = mw[t].req.path
    /\ mw[s].req.query = mw[t].req.query

\* The challenge issued for the URL of slot s
ChallengeFor(s) == ChallengeRequirement(config, [mw[s].req EXCEPT !.xpayment = NoHeader])

\* C27: the requirement a payload is verified against is built from the
\* route policy, the payee, the token and network configuration and the
\* request URL only: requests to the same URL with different x-payment
\* headers are verified against the same requirement, whose network, payee,
\* asset and amount are those of the challenge for that route.
C27_RequirementFromPolicy ==
    \A s, t \in Slots :
        HasRequirement(s) =>
            /\ mw[s].paymentRequirement.props.network = ChallengeFor(s).props.network
            /\ mw[s].paymentRequirement.props.payTo = ChallengeFor(s).props.payTo
            /\ mw[s].paymentRequirement.props.asset = ChallengeFor(s).props.asset
            /\ mw[s].paymentRequirement.props.maxAmountRequired
                 = ChallengeFor(s).props.maxAmountRequired
            /\ mw[s].paymentRequirement.props.asset = ConfiguredCoinType
            /\ mw[s].paymentRequirement.props.maxAmountRequired = Routes(mw[s].req.path).price
            /\ (HasRequirement(t) /\ SameUrl(s, t)) =>
                   mw[s].paymentRequirement = mw[t].paymentRequirement

\* C27 witness: two requests to one URL that carry different payloads
C27_Witness ==
    \E s, t \in Slots :
        /\ HasRequirement(s)
        /\ HasRequirement(t)
        /\ SameUrl(s, t)
        /\ mw[s].paymentPayload = PaidSui
        /\ mw[t].paymentPayload = PaidUsdc
        /\ mw[s].verifyCalls = 1
        /\ mw[t].verifyCalls = 1
        /\ mw[s].paymentRequirement = mw[t].paymentRequirement

\* What the context of slot s holds is the request's own: the payload is
\* the decoding of its own header, the handler ran on its own verdict, the
\* recorded status is that of its own response, and a settle call follows
\* its own delivery
OwnState(s) ==
    /\ mw[s].paymentPayload # JSUndefined =>
           JSONparse(BufferFromBase64(mw[s].req.xpayment)) = Ret(mw[s].paymentPayload)
    /\ mw[s].x402Payment # JSUndefined => mw[s].x402Payment = mw[s].paymentPayload
    /\ mw[s].paymentRequirement # JSUndefined =>
           mw[s].paymentRequirement = VerificationRequirement(config, mw[s].req)
    /\ (mw[s].nextCalls = 1 /\ Covered(mw[s].req)) =>
           /\ mw[s].verifyCalls = 1
           /\ mw[s].verdict = "true" \/ HttpOk(mw[s].verifyStatus)
    /\ mw[s].nextCalls = 0 => ~mw[s].routeExecuted
    /\ mw[s].routeExecuted =>
           /\ mw[s].delivered # NoResponse
           /\ mw[s].routeStatusCode = mw[s].delivered.status
    /\ (mw[s].settleCalls > 0 \/ mw[s].pc = "settling") =>
           /\ mw[s].routeExecuted
           /\ mw[s].delivered.status < 400
           /\ mw[s].paymentPayload # JSUndefined
    /\ mw[s].verifyCalls <= 1
    /\ mw[s].settleCalls <= 1

\* A step acts on one request and leaves the other request's context alone
OneRequestPerStep == \E s \in Slots : \A t \in Slots \ {s} : mw'[t] = mw[t]

\* C28: requests share no mutable state: in every interleaving a step
\* changes the context of one request only, and the payload, verdict, status
\* and settle call of a request are its own.
C28_NoSharedState ==
    /\ [](\A s \in Active : OwnState(s))
    /\ [][OneRequestPerStep /\ config' = config]_vars

\* C28 witness: two requests in flight with different payloads and different
\* outcomes
C28_Witness ==
    \E s, t \in Active :
        /\ mw[s].paymentPayload = PaidSui
        /\ mw[t].paymentPayload = PaidTooLittle
        /\ mw[s].routeExecuted
        /\ mw[s].delivered.status = 200
        /\ mw[t].delivered.status = 402
        /\ mw[t].nextCalls = 0
        /\ ~mw[t].routeExecuted

\* The request of slot s was answered after its verification failed
RejectedAfterVerification(s) ==
    /\ s \in Active
    /\ VerificationReportedFailure(mw[s])
    /\ mw[s].delivered # NoResponse

\* C29: the 402 body sent on a verification failure is the same generic
\* message whatever the reason: two payloads that fail verification for
\* different reasons receive identical response bodies.
C29_GenericRejection ==
    \A s, t \in Slots :
        RejectedAfterVerification(s) =>
            /\ mw[s].delivered.status = 402
            /\ mw[s].delivered.body = ErrorText("Payment verification failed")
            /\ RejectedAfterVerification(t) => mw[t].delivered.body = mw[s].delivered.body

\* C29 witness: an underpayment and a payment in the wrong asset, both rejected
C29_Witness ==
    \E s, t \in Slots :
        /\ RejectedAfterVerification(s)
        /\ RejectedAfterVerification(t)
        /\ mw[s].paymentPayload = PaidTooLittle
        /\ mw[t].paymentPayload = PaidUsdc
        /\ ConfiguredCoinType = SUI
        /\ mw[s].delivered.body = mw[t].delivered.body

\* The request of slot s is for a route that has no methods list, with a
\* method other than GET
OtherMethodNoList(s) ==
    /\ s \in Active
    /\ mw[s].req.path \in RoutePaths
    /\ "methods" \notin DOMAIN Routes(mw[s].req.path)
    /\ mw[s].req.method # "GET"

\* C35: a route configured without a methods list is protected for GET
\* only: a request to that path with any other method is passed through to
\* the handler with no challenge and no payment check.
C35_NoListMeansGet ==
    \A s \in Slots :
        /\ OtherMethodNoList(s) =>
               /\ mw[s].nextCalls = 1
               /\ mw[s].written = 0
               /\ mw[s].verifyCalls = 0
               /\ mw[s].settleCalls = 0
               /\ mw[s].paymentPayload = JSUndefined
               /\ mw[s].x402Payment = JSUndefined
               /\ mw[s].delivered # NoResponse => mw[s].delivered.body = HandlerText
        /\ (s \in Active /\ mw[s].req.path \in RoutePaths
              /\ "methods" \notin DOMAIN Routes(mw[s].req.path)
              /\ mw[s].req.method = "GET" /\ HeaderMissing(mw[s].req.xpayment)) =>
               mw[s].delivered.status = 402 /\ mw[s].nextCalls = 0

\* C35 witness: POST /premium without payment, answered by the handler
C35_Witness ==
    \E s \in Slots :
        /\ OtherMethodNoList(s)
        /\ mw[s].req.path = "/premium"
        /\ mw[s].req.method = "POST"
        /\ mw[s].req.xpayment = NoHeader
        /\ mw[s].delivered.status = 200
        /\ mw[s].delivered.body = HandlerText

GotChallenge ==
    /\ FirstHandled
    /\ client.target = "middleware"
    /\ Covered(client.req)
    /\ HeaderMissing(client.req.xpayment)
    /\ client.first.status = 402

\* The list the middleware put into that challenge
IssuedList == <<DefinedProps(ChallengeRequirement(config, client.req))>>

\* C21: the list of requirements the middleware encodes into its 402
\* challenge, decoded by the wrapped fetch from that response, is the list
\* that was encoded.
C21_ChallengeRoundTrip ==
    GotChallenge =>
        /\ ~HeaderMissing(ChallengeHeader)
        /\ decodeXPaymentRequired(ChallengeHeader) = Ret(IssuedList)

\* C21 witness: the challenge carried its list in the body only, and the
\* wrapped fetch decoded nothing from it
C21_Witness ==
    /\ GotChallenge
    /\ Returned(JSONparse(client.first.body))
    /\ JSONparse(client.first.body).v.props.accepts = IssuedList
    /\ ChallengeHeader = NoHeader
    /\ client.pc = "threw"

(***************************************************************************)
(* verifyPayment called directly (it is exported): any payload, any        *)
(* requirement of the PaymentRequirement type, the ledger reachable or     *)
(* not, while transfers commit on the ledger in between.                   *)
(***************************************************************************)
MaxVerifyCalls == 2

AmountStrings ==
    {<<"1", "0">>, <<"5">>, <<"2", "0">>, <<"9">>, <<>>, <<"a">>, <<"-", "1">>,
     <<" ", "1", "0", " ">>, <<"0", "x", "a">>, <<"1", ".", "5">>}

TransactionTexts == {toB64("t1"), toB64("t3"), toB64("junk"), NotBase64}

VPayloadObjects ==
    {JSObject([scheme |-> s, network |-> n, transaction |-> t,
               signature |-> SignatureOf("t1"), amount |-> a, payTo |-> to, asset |-> c]) :
        s \in {"exact", "upto"}, n \in {"sui-localnet", "sui-devnet"},
        t \in TransactionTexts, a \in AmountStrings,
        to \in {"payee", "mallory"}, c \in Assets}

VPayloads ==
    VPayloadObjects \cup
    {JSNull, JSNumber(1), JSObject(<<>>),
     JSObject([scheme |-> "exact", network |-> "sui-localnet", payTo |-> "payee",
               asset |-> SUI])}

\* PaymentRequirement: scheme is the type's only value, "exact"
VRequirements ==
    {JSObject([scheme |-> "exact", network |-> "sui-localnet", maxAmountRequired |-> a,
               payTo |-> "payee", asset |-> c]) :
        a \in {<<"1", "0">>, <<"2", "0">>, <<"x">>}, c \in Assets}

RpcUrls == {Undefined, "http://127.0.0.1:9000"}

VerifyCall ==
    /\ vcall.n = 0
    /\ \E p \in VPayloads, r \in VRequirements, u \in RpcUrls, rpc \in {"up", "down"} :
       \E v \in {verifyPayment(p, r, u, ledger, rpc)} :
           /\ vcall' = [n |-> 1, payload |-> p, requirement |-> r, rpcUrl |-> u, rpc |-> rpc,
                        out |-> v.out, rpcCalls |-> v.rpcCalls,
                        before |-> ledger, after |-> v.ledger,
                        first |-> v.out, firstLedger |-> ledger,
                        log |-> ConsoleError(p, r, u, ledger, rpc)]
           /\ ledger' = v.ledger
    /\ UNCHANGED serverVars

VerifyAgain ==
    /\ vcall.n >= 1
    /\ vcall.n < MaxVerifyCalls
    /\ \E v \in {verifyPayment(vcall.payload, vcall.requirement, vcall.rpcUrl,
                                ledger, vcall.rpc)} :
       /\ vcall' = [vcall EXCEPT !.n = @ + 1, !.out = v.out, !.rpcCalls = v.rpcCalls,
                                 !.before = ledger, !.after = v.ledger,
                                 !.log = ConsoleError(vcall.payload, vcall.requirement,
                                                      vcall.rpcUrl, ledger, vcall.rpc)]
       /\ ledger' = v.ledger
    /\ UNCHANGED serverVars

\* Somebody's transfer commits on the ledger
LedgerCommits ==
    /\ \E t \in TxIds :
        /\ CanExecute(ledger, t)
        /\ ledger' = Transfer(ledger, t)
    /\ UNCHANGED <<vcall, serverVars>>

InitVerify ==
    /\ ledger = InitLedger
    /\ vcall = NoCall
    /\ config = DirectConfig
    /\ mw = [s \in Slots |-> Fresh]
    /\ served = 0
    /\ client = IdleClient

NextVerify == VerifyCall \/ VerifyAgain \/ LedgerCommits

SpecVerify == InitVerify /\ [][NextVerify]_vars

\* The inputs of the last call
VP == vcall.payload

VR == vcall.requirement

AmountBelow(p, r) ==
    /\ Returned(BigIntProp(p, "amount"))
    /\ Returned(BigIntProp(r, "maxAmountRequired"))
    /\ BigIntProp(p, "amount").v < BigIntProp(r, "maxAmountRequired").v

FieldDiffers(p, r, k) == Prop(p, k) # Prop(r, k)

WouldSimulate(p, L) ==
    /\ HasProp(p, "transaction")
    /\ Returned(fromB64(p.props.transaction))
    /\ IsTransaction(fromB64(p.props.transaction).v)
    /\ CanExecute(L, fromB64(p.props.transaction).v)

\* C3: verifyPayment returns false whenever the amount is below the required
\* amount or the scheme, network, payee or asset differs from the
\* requirement's, whatever the simulation of the transfer would report.
C3_RejectsMismatch ==
    vcall.n >= 1 =>
        ((\/ AmountBelow(VP, VR)
          \/ \E k \in {"scheme", "network", "payTo", "asset"} : FieldDiffers(VP, VR, k))
         => vcall.out = Ret(FALSE))

\* C3 witness: only the asset differs, the transfer would simulate with
\* success on a reachable ledger, and the call returned false
C3_Witness ==
    /\ vcall.n >= 1
    /\ FieldDiffers(VP, VR, "asset")
    /\ \A k \in {"scheme", "network", "payTo"} : ~FieldDiffers(VP, VR, k)
    /\ Returned(BigIntProp(VP, "amount")) /\ ~AmountBelow(VP, VR)
    /\ vcall.rpc = "up"
    /\ WouldSimulate(VP, vcall.before)
    /\ vcall.out = Ret(FALSE)

\* C4: verifyPayment never throws; a ledger connectivity error, a simulation
\* exception, an unparsable amount or a malformed payload make it return false.
C4_NeverThrows ==
    vcall.n >= 1 =>
        /\ Returned(vcall.out)
        /\ (\/ vcall.rpc = "down"
            \/ VP.type # "object"
            \/ ~Returned(BigIntProp(VP, "amount"))
            \/ ~HasProp(VP, "transaction")
            \/ ~Returned(fromB64(VP.props.transaction))
            \/ ~IsTransaction(fromB64(VP.props.transaction).v))
           => vcall.out = Ret(FALSE)

\* C4 witness: the field checks passed, the ledger was called and was
\* unreachable, and the call returned false
C4_Witness ==
    /\ vcall.n >= 1
    /\ vcall.rpc = "down"
    /\ vcall.rpcCalls = 1
    /\ vcall.out = Ret(FALSE)

\* C5: a call of verifyPayment leaves the ledger as it was, and repeated on
\* the same payload with the ledger unchanged it returns the same result.
C5_LedgerUnchanged ==
    vcall.n >= 1 =>
        /\ vcall.after = vcall.before
        /\ ledger = vcall.firstLedger => vcall.out = vcall.first

\* C5 witness: a payload verified twice with success, the ledger having been
\* called each time
C5_Witness ==
    /\ vcall.n >= 2
    /\ vcall.rpcCalls = 1
    /\ vcall.out = Ret(TRUE)
    /\ ledger = vcall.firstLedger

\* The amount check passes: both amounts parse and the paid one is not less
AmountSuffices(p, r) ==
    /\ Returned(BigIntProp(p, "amount"))
    /\ Returned(BigIntProp(r, "maxAmountRequired"))
    /\ BigIntProp(p, "amount").v >= BigIntProp(r, "maxAmountRequired").v

\* The five field checks all pass
FieldsPass(p, r) ==
    /\ p.type # "null"
    /\ Prop(p, "scheme") = "exact"
    /\ ~FieldDiffers(p, r, "network")
    /\ ~FieldDiffers(p, r, "payTo")
    /\ ~FieldDiffers(p, r, "asset")
    /\ AmountSuffices(p, r)

\* C30: verifyPayment runs its checks in the order scheme, network, payee,
\* asset, amount, ledger simulation and stops at the first failure: the
\* failure it reports is that of the first check that fails, and the ledger
\* is contacted at most once per call and only after the five field checks
\* have all passed.
C30_CheckOrder ==
    vcall.n >= 1 =>
        /\ vcall.rpcCalls <= 1
        /\ vcall.rpcCalls = 1 => FieldsPass(VP, VR)
        /\ (VP.type # "null" /\ Prop(VP, "scheme") # "exact") =>
               vcall.log = "Invalid payment scheme:"
        /\ (Prop(VP, "scheme") = "exact" /\ FieldDiffers(VP, VR, "network")) =>
               vcall.log = "Network mismatch:"
        /\ (Prop(VP, "scheme") = "exact" /\ ~FieldDiffers(VP, VR, "network")
              /\ FieldDiffers(VP, VR, "payTo")) =>
               vcall.log = "PayTo address mismatch:"
        /\ (Prop(VP, "scheme") = "exact" /\ ~FieldDiffers(VP, VR, "network")
              /\ ~FieldDiffers(VP, VR, "payTo") /\ FieldDiffers(VP, VR, "asset")) =>
               vcall.log = "Asset type mismatch:"
        /\ (Prop(VP, "scheme") = "exact" /\ ~FieldDiffers(VP, VR, "network")
              /\ ~FieldDiffers(VP, VR, "payTo") /\ ~FieldDiffers(VP, VR, "asset")
              /\ AmountBelow(VP, VR)) =>
               vcall.log = "Insufficient payment amount:"
        /\ vcall.log \in {"Invalid payment scheme:", "Network mismatch:",
                          "PayTo address mismatch:", "Asset type mismatch:",
                          "Insufficient payment amount:"} =>
               vcall.rpcCalls = 0 /\ vcall.out = Ret(FALSE)
        /\ vcall.log = "Transaction dry run failed:" =>
               vcall.rpcCalls = 1 /\ vcall.out = Ret(FALSE)
        /\ vcall.out = Ret(TRUE) => vcall.rpcCalls = 1 /\ vcall.log = ""

\* C30 witness: a payload wrong in its payee, its amount and its transfer
\* is reported for its payee, and the ledger is not asked
C30_Witness ==
    /\ vcall.n >= 1
    /\ Prop(VP, "scheme") = "exact"
    /\ ~FieldDiffers(VP, VR, "network")
    /\ FieldDiffers(VP, VR, "payTo")
    /\ AmountBelow(VP, VR)
    /\ ~WouldSimulate(VP, vcall.before)
    /\ vcall.log = "PayTo address mismatch:"
    /\ vcall.rpcCalls = 0

(***************************************************************************)
(* The system: the middleware with a facilitator configured, the           *)
(* facilitator service, whose endpoints anybody can post to, and the       *)
(* ledger.                                                                 *)
(***************************************************************************)
QuickFacilitator == [given |-> TRUE, url |-> "http://localhost:3002", timeout |-> 5000]

SystemConfigs ==
    [facilitator : {LocalFacilitator, QuickFacilitator}, x402Config : {NoX402Config}]

\* The payloads somebody posts straight to the facilitator
PostedPayloads == {PaidSui, PaidUnsigned, PaidBeyondBalance}

\* POST /settle of the facilitator, by a caller other than the middleware
DirectSettle ==
    /\ vcall.n = 0
    /\ \E p \in PostedPayloads, rpc \in {"up", "down"} :
       \E a \in {FacilitatorSettle(JSObject([paymentPayload |-> p]), ledger, rpc, 1)} :
           /\ vcall' = [n |-> 1, op |-> "POST /settle", payload |-> p, rpc |-> rpc,
                        status |-> a.status, answer |-> a.body, rpcCalls |-> a.rpcCalls,
                        before |-> ledger, after |-> a.ledger]
           /\ ledger' = a.ledger
    /\ UNCHANGED serverVars

InitSystem ==
    /\ ledger = InitLedger
    /\ vcall = NoCall
    /\ config \in SystemConfigs
    /\ mw = [s \in Slots |-> Fresh]
    /\ served = 0
    /\ client = IdleClient

NextSystem ==
    \/ DirectSettle
    \/ \E s \in Slots :
        \/ Receive(s)
        \/ VerifyThroughFacilitator(s)
        \/ HandlerResponds(s)
        \/ Finish(s)
        \/ SettleThroughFacilitator(s)
        \/ Retire(s)

SpecSystem == InitSystem /\ [][NextSystem]_vars

\* The payload of slot s passed verification and is being settled
SettlingVerified(s, t) ==
    /\ mw[s].pc = "settling"
    /\ mw[s].verifyCalls = 1
    /\ HttpOk(mw[s].verifyStatus)
    /\ Prop(mw[s].paymentPayload, "transaction") = toB64(t)

\* C31: a payload is submitted to the ledger for committed execution only
\* after it has passed verification: every step that commits a transfer is
\* the settle call of a request whose payload was verified.
C31_SettledOnlyVerified ==
    [][\A t \in TxIds :
        (t \in ledger'.executed /\ t \notin ledger.executed) =>
            \E s \in Slots : SettlingVerified(s, t)]_vars

\* C31 witness: a transfer committed through /settle before the middleware
\* has received any request
C31_Witness ==
    /\ served = 0
    /\ vcall.n = 1
    /\ vcall.op = "POST /settle"
    /\ vcall.payload = PaidSui
    /\ vcall.status = 200
    /\ "t1" \in ledger.executed

\* One request at a time through the middleware
NextInTurn ==
    \/ Receive("a")
    \/ VerifyThroughFacilitator("a")
    \/ HandlerResponds("a")
    \/ Finish("a")
    \/ SettleThroughFacilitator("a")
    \/ Retire("a")

\* The fetch of /verify settles: the facilitator answers, the connection
\* fails, or AbortSignal.timeout aborts it
SpecInTurnFair ==
    InitSystem /\ [][NextInTurn]_vars /\ WF_vars(VerifyThroughFacilitator("a"))

\* The request of slot s has its outcome: a 402, or the handler invoked
Terminal(s) == mw[s].nextCalls = 1 \/ mw[s].delivered.status = 402

\* C32: with a facilitator configured, every request on a protected route
\* that carries a payment header reaches a 402 or the handler: the verify
\* call answers or is aborted by the configured timeout (30 seconds when
\* none is given), and an abort ends the request with a 402.
C32_VerifyTerminates ==
    /\ \A s \in Slots : (mw[s].pc = "verifying") ~> Terminal(s)
    /\ [](\A s \in Slots :
            mw[s].fault = "transport" =>
                /\ mw[s].pc = "done"
                /\ mw[s].delivered.status = 402
                /\ mw[s].nextCalls = 0)
    /\ [](FacilitatorTimeout(config.facilitator)
            = IF config.facilitator = QuickFacilitator THEN 5000 ELSE 30000)

\* C32 witness: a verify call that got no answer, and the 402 that ended
\* the request, under a facilitator given without a timeout
C32_Witness ==
    \E s \in Slots :
        /\ config.facilitator = LocalFacilitator
        /\ FacilitatorTimeout(config.facilitator) = 30000
        /\ mw[s].paymentPayload = PaidSui
        /\ Covered(mw[s].req)
        /\ mw[s].verifyCalls = 1
        /\ mw[s].fault = "transport"
        /\ mw[s].delivered.status = 402

(***************************************************************************)
(* The exported functions and the facilitator's endpoints called directly, *)
(* and the headers carried between the parties: one call on a ledger that  *)
(* transfers of others may have changed.                                   *)
(***************************************************************************)
SPayloads ==
    {PaidSui, PaidUsdc, PaidTooLittle, PaidUnsigned, PaidNoTransfer, PaidBeyondBalance,
     Payment(<<"1", "0">>, SUI, toB64("junk"), SignatureOf("t1")),
     JSNull, JSObject([transaction |-> toB64("t1"), signature |-> SignatureOf("t1")]),
     JSObject([network |-> "sui-localnet", signature |-> SignatureOf("t1")])}

\* The bodies posted to /verify
VerifyBodies ==
    {JSObject([paymentPayload |-> p, paymentRequirement |-> r]) :
        p \in {PaidSui, PaidUsdc, PaidTooLittle, PaidNoTransfer, PaidBeyondBalance, JSNull},
        r \in VRequirements \cup {JSNull}}
    \cup {JSObject([paymentPayload |-> PaidSui]), JSObject(<<>>)}
    \cup {JSObject([paymentRequirement |-> r]) : r \in VRequirements}

\* The bodies posted to /settle
SettleBodies ==
    {JSObject([paymentPayload |-> p]) : p \in SPayloads} \cup {JSObject(<<>>)}

\* The requirements a payment is built for
BuildRequirements ==
    {Requirement(a, c) : a \in {<<"1", "0">>, <<"3", "0">>, <<"x">>}, c \in Assets}

\* settlePayment(paymentPayload, rpcUrl)
SettleCall ==
    /\ vcall.n = 0
    /\ \E p \in SPayloads, u \in RpcUrls, rpc \in {"up", "down"} :
       \E r \in {settlePayment(p, u, ledger, rpc, 1)} :
           /\ vcall' = [n |-> 1, op |-> "settlePayment", payload |-> p, rpcUrl |-> u,
                        rpc |-> rpc, out |-> r.out, rpcCalls |-> r.rpcCalls,
                        before |-> ledger, after |-> r.ledger]
           /\ ledger' = r.ledger
    /\ UNCHANGED serverVars

\* POST /verify of the facilitator
PostVerify ==
    /\ vcall.n = 0
    /\ \E body \in VerifyBodies, rpc \in {"up", "down"} :
       \E a \in {FacilitatorVerify(body, ledger, rpc)} :
           /\ vcall' = [n |-> 1, op |-> "POST /verify", body |-> body, rpc |-> rpc,
                        status |-> a.status, answer |-> a.body,
                        before |-> ledger, after |-> a.ledger]
           /\ ledger' = a.ledger
    /\ UNCHANGED serverVars

\* POST /settle of the facilitator
PostSettle ==
    /\ vcall.n = 0
    /\ \E body \in SettleBodies, rpc \in {"up", "down"} :
       \E a \in {FacilitatorSettle(body, ledger, rpc, 1)} :
           /\ vcall' = [n |-> 1, op |-> "POST /settle", body |-> body, rpc |-> rpc,
                        status |-> a.status, answer |-> a.body, rpcCalls |-> a.rpcCalls,
                        before |-> ledger, after |-> a.ledger]
           /\ ledger' = a.ledger
    /\ UNCHANGED serverVars

\* The middleware encodes the receipt /settle answered with, and
\* decodeXPaymentResponse decodes the header
EncodeReceipt ==
    /\ vcall.n = 1
    /\ vcall.op = "POST /settle"
    /\ HttpOk(vcall.status)
    /\ vcall' = [n |-> 2, op |-> "receipt", paymentResponse |-> vcall.answer,
                 header |-> ReceiptHeader(vcall.answer),
                 decoded |-> decodeXPaymentResponse(ReceiptHeader(vcall.answer))]
    /\ UNCHANGED <<ledger, serverVars>>

\* createPaymentHeader: the payment and the header made of it
BuildHeader ==
    /\ vcall.n = 0
    /\ \E r \in BuildRequirements, rpc \in {"up", "down"} :
       \E o \in createAndSignPayment(r, Signer, Undefined, ledger, rpc) :
           vcall' = [n |-> 1, op |-> "createPaymentHeader", requirement |-> r,
                     payment |-> o, header |-> HeaderOf(o)]
    /\ UNCHANGED <<ledger, serverVars>>

\* The middleware receives a request that carries the header
DecodeHeader ==
    /\ vcall.n = 1
    /\ vcall.op = "createPaymentHeader"
    /\ Returned(vcall.header)
    /\ \E cfg \in Configs, path \in RoutePaths :
        vcall' = [n |-> 2, op |-> "payload", payment |-> vcall.payment.v,
                  header |-> vcall.header.v,
                  received |-> MiddlewareEntry(cfg, Request("GET", path, "",
                                                            vcall.header.v))]
    /\ UNCHANGED <<ledger, serverVars>>

\* One request, verified by a middleware without a facilitator and by one
\* with a facilitator that answers, on the same ledger
VerifyBothWays ==
    /\ vcall.n = 0
    /\ \E rq \in RequestMenu, x \in {NoX402Config, UsdcX402Config}, rpc \in {"up", "down"} :
       \E c \in {MiddlewareEntry([facilitator |-> NoFacilitator, x402Config |-> x], rq)},
          d \in {MiddlewareEntry([facilitator |-> LocalFacilitator, x402Config |-> x], rq)} :
           /\ c.pc = "verifying"
           /\ d.pc = "verifying"
           /\ vcall' = [n |-> 1, op |-> "verify both ways", req |-> rq, x402Config |-> x,
                        rpc |-> rpc,
                        local |-> LocallyVerified(c,
                                     verifyPayment(c.paymentPayload, c.paymentRequirement,
                                                   RpcUrl([facilitator |-> NoFacilitator,
                                                           x402Config |-> x]),
                                                   ledger, rpc)),
                        delegated |-> DelegatedVerified(d,
                                         FacilitatorVerify(VerifyRequestBody(d), ledger, rpc),
                                         "answered")]
    /\ UNCHANGED <<ledger, serverVars>>

MaxCoins == 3

CoinIds == <<"c1", "c2", "c3", "c4">>

\* The lists client.getCoins answers with: up to MaxCoins coins
CoinLists ==
    UNION {[1..n -> {0, 5, 10}] : n \in 0..MaxCoins}

\* The coin selection of createAndSignPayment on a list of coins
SelectFromCoins ==
    /\ vcall.n = 0
    /\ \E balances \in CoinLists, amount \in {0, 5, 10, 15, 30} :
       \E coins \in {[i \in 1..Len(balances) |->
                        [coinObjectId |-> CoinIds[i], balance |-> balances[i]]]} :
           vcall' = [n |-> 1, op |-> "getCoins", coins |-> coins, amount |-> amount,
                     out |-> CoinSelection(coins, amount)]
    /\ UNCHANGED <<ledger, serverVars>>

NextService ==
    \/ SettleCall
    \/ PostVerify
    \/ PostSettle
    \/ EncodeReceipt
    \/ BuildHeader
    \/ DecodeHeader
    \/ VerifyBothWays
    \/ SelectFromCoins
    \/ LedgerCommits

SpecService == InitVerify /\ [][NextService]_vars

SettleCalled == vcall.n = 1 /\ vcall.op = "settlePayment"

\* A ledger client can be made for the payload and its transaction text decodes
Submittable ==
    /\ vcall.payload.type # "null"
    /\ vcall.rpcUrl # Undefined \/ Prop(vcall.payload, "network") \in SuiNetworks
    /\ HasProp(vcall.payload, "transaction")
    /\ vcall.payload.props.transaction # NotBase64

\* The ledger, as it was before the call, executes the payload's transfer
LedgerAccepts ==
    /\ Submittable
    /\ vcall.rpc = "up"
    /\ vcall.payload.props.transaction.b64 \in TxIds
    /\ Prop(vcall.payload, "signature") = SignatureOf(vcall.payload.props.transaction.b64)
    /\ CanExecute(vcall.before, vcall.payload.props.transaction.b64)

\* A receipt exactly on the ledger's success, the error and an untouched
\* ledger otherwise
SettleOutcomeFaithful ==
    /\ Returned(vcall.out) <=> LedgerAccepts
    /\ Returned(vcall.out) =>
           /\ vcall.out.v.transactionDigest = vcall.payload.props.transaction.b64
           /\ vcall.out.v.amount = Prop(vcall.payload, "amount")
           /\ vcall.out.v.effects.status = "success"
           /\ vcall.after = Transfer(vcall.before, vcall.payload.props.transaction.b64)
    /\ ~Returned(vcall.out) =>
           /\ vcall.after = vcall.before
           /\ vcall.rpcCalls = 1 =>
                  vcall.out.e \in {"Transaction failed", "fetch failed",
                                   "invalid signature", "invalid transaction bytes"}

\* C23: settlePayment submits the payload's transfer and signature to the
\* ledger at most once per call, and exactly once when a ledger client can
\* be made for the payload and its transaction text decodes; on a
\* non-success status or a failed call it throws the reason and returns no
\* receipt, and on success the receipt carries the ledger's digest and the
\* payload's amount.
C23_SettleOutcome ==
    SettleCalled =>
        /\ vcall.rpcCalls <= 1
        /\ vcall.rpcCalls = 1 <=> Submittable
        /\ SettleOutcomeFaithful

\* C23 as stated: one submission in every call
C23_SubmitsExactlyOnce ==
    SettleCalled =>
        /\ vcall.rpcCalls = 1
        /\ SettleOutcomeFaithful

\* C23 witness: a settled transfer and its receipt
C23_Witness ==
    /\ SettleCalled
    /\ vcall.rpcCalls = 1
    /\ Returned(vcall.out)
    /\ vcall.out.v.transactionDigest = "t1"
    /\ vcall.out.v.amount = <<"1", "0">>
    /\ "t1" \in vcall.after.executed
    /\ "t1" \notin vcall.before.executed

VerifyPosted == vcall.n = 1 /\ vcall.op = "POST /verify"

PostedPayload == BodyProp(vcall.body, "paymentPayload")

PostedRequirement == BodyProp(vcall.body, "paymentRequirement")

PostedComplete == ~Falsy(PostedPayload) /\ ~Falsy(PostedRequirement)

\* What verifyPayment returns for the posted payload and requirement
PostedVerdict ==
    verifyPayment(PostedPayload, PostedRequirement, FacilitatorRpcUrl,
                  vcall.before, vcall.rpc).out

InvalidAnswer ==
    /\ Prop(vcall.answer, "valid") = FALSE
    /\ HasProp(vcall.answer, "error")

\* C24: POST /verify answers 200 {valid: true} exactly when verifyPayment
\* returns true for the posted payload and requirement, 400 {valid: false,
\* error} when it returns false or one of the two is missing, 500 {valid:
\* false, error} only when something threw, and leaves the ledger as it was.
C24_VerifyEndpoint ==
    VerifyPosted =>
        /\ vcall.status \in {200, 400, 500}
        /\ (vcall.status = 200) <=> (PostedComplete /\ PostedVerdict = Ret(TRUE))
        /\ vcall.status = 200 => vcall.answer = JSObject([valid |-> TRUE])
        /\ (~PostedComplete \/ PostedVerdict = Ret(FALSE)) =>
               vcall.status = 400 /\ InvalidAnswer
        /\ vcall.status = 500 =>
               PostedComplete /\ ~Returned(PostedVerdict) /\ InvalidAnswer
        /\ vcall.after = vcall.before

\* C24 witness: a payment that verifies was posted and answered 200
C24_Witness ==
    /\ VerifyPosted
    /\ PostedPayload = PaidSui
    /\ vcall.rpc = "up"
    /\ vcall.status = 200
    /\ vcall.answer = JSObject([valid |-> TRUE])

SettlePosted == vcall.n = 1 /\ vcall.op = "POST /settle"

\* What settlePayment does with the posted payload
PostedSettlement ==
    settlePayment(BodyProp(vcall.body, "paymentPayload"), FacilitatorRpcUrl,
                  vcall.before, vcall.rpc, 1)

SettledAnswer ==
    /\ ~Falsy(BodyProp(vcall.body, "paymentPayload"))
    /\ Returned(PostedSettlement.out)
    /\ vcall.status = 200
    /\ vcall.answer = JSObject(PostedSettlement.out.v)

FailedAnswer ==
    /\ ~Falsy(BodyProp(vcall.body, "paymentPayload"))
    /\ ~Returned(PostedSettlement.out)
    /\ vcall.status = 500
    /\ vcall.answer = JSObject([error |-> PostedSettlement.out.e])
    /\ vcall.after = vcall.before

MissingAnswer ==
    /\ Falsy(BodyProp(vcall.body, "paymentPayload"))
    /\ vcall.status = 400
    /\ vcall.answer = JSObject([error |-> "Missing paymentPayload"])
    /\ vcall.rpcCalls = 0
    /\ vcall.after = vcall.before

\* C25: POST /settle answers 200 with the PaymentResponse when the
\* settlement succeeded, 500 with {error} when it failed or was rejected,
\* and 400 with {error} when the body carries no paymentPayload; a failed
\* settlement is never answered 200.
C25_SettleEndpoint ==
    SettlePosted => (SettledAnswer \/ FailedAnswer \/ MissingAnswer)

\* C25 as stated: 200 with the PaymentResponse, or 500 with {error}
C25_Only200Or500 ==
    SettlePosted => (SettledAnswer \/ FailedAnswer)

\* C25 witness: a transfer the ledger refused was answered 500
C25_Witness ==
    /\ SettlePosted
    /\ BodyProp(vcall.body, "paymentPayload") = PaidBeyondBalance
    /\ vcall.rpc = "up"
    /\ vcall.rpcCalls = 1
    /\ FailedAnswer

VerifiedBothWays == vcall.n = 1 /\ vcall.op = "verify both ways"

\* C33: delegated and local verification decide alike: for the same header,
\* route and ledger, a middleware whose facilitator answers invokes the
\* handler exactly when one without a facilitator does, and answers the
\* same 402 and error message otherwise.
C33_DelegatedAsLocal ==
    VerifiedBothWays =>
        /\ vcall.delegated.nextCalls = vcall.local.nextCalls
        /\ vcall.delegated.pc = vcall.local.pc
        /\ vcall.delegated.delivered = vcall.local.delivered
        /\ vcall.delegated.x402Payment = vcall.local.x402Payment
        /\ vcall.local.nextCalls = 0 =>
               /\ vcall.local.delivered.status = 402
               /\ Prop(JSONparse(vcall.local.delivered.body).v, "error")
                    = "Payment verification failed"

\* C33 witness: a payment both accept on a ledger where another payment of
\* the same client has committed
C33_Witness ==
    /\ VerifiedBothWays
    /\ vcall.req.xpayment = EncodeHeader(PaidSui)
    /\ "t2" \in ledger.executed
    /\ vcall.local.nextCalls = 1
    /\ vcall.delegated.nextCalls = 1
    /\ vcall.delegated.verifyStatus = 200

PaymentBuilt ==
    vcall.n = 1 /\ vcall.op = "createPaymentHeader" /\ Returned(vcall.payment)

\* C34: a payload createAndSignPayment builds for a requirement R has scheme
\* "exact" and R's network, payee, asset and amount, so it passes the five
\* field checks of verifyPayment against R; whether it is accepted then
\* depends only on the simulation on the ledger.
C34_BuiltPayloadPassesFields ==
    PaymentBuilt =>
        /\ Prop(vcall.payment.v, "scheme") = "exact"
        /\ Prop(vcall.payment.v, "network") = Prop(vcall.requirement, "network")
        /\ Prop(vcall.payment.v, "payTo") = Prop(vcall.requirement, "payTo")
        /\ Prop(vcall.payment.v, "asset") = Prop(vcall.requirement, "asset")
        /\ Prop(vcall.payment.v, "amount") = Prop(vcall.requirement, "maxAmountRequired")
        /\ FieldsPass(vcall.payment.v, vcall.requirement)
        /\ FieldChecks(vcall.payment.v, vcall.requirement) = Ret(TRUE)
        /\ \A rpc \in {"up", "down"}, u \in RpcUrls :
               /\ verifyPayment(vcall.payment.v, vcall.requirement, u, ledger, rpc).rpcCalls = 1
               /\ verifyPayment(vcall.payment.v, vcall.requirement, u, ledger, rpc).out
                    = Ret(rpc = "up" /\ WouldSimulate(vcall.payment.v, ledger))

\* C34 witness: a payload built for a requirement in USDC, and a ledger on
\* which its transfer has since been committed
C34_Witness ==
    /\ PaymentBuilt
    /\ Prop(vcall.requirement, "asset") = USDC
    /\ Prop(vcall.payment.v, "asset") = USDC
    /\ "t2" \in ledger.executed
    /\ verifyPayment(vcall.payment.v, vcall.requirement, Undefined, ledger, "up").out
         = Ret(FALSE)

CoinsSelected == vcall.n = 1 /\ vcall.op = "getCoins"

\* The selection is the first n coins of the list, in order
SelectionIsPrefix(n) ==
    /\ n <= Len(vcall.coins)
    /\ vcall.out.v = [i \in 1..n |-> vcall.coins[i].coinObjectId]

\* An error, and no selection, exactly when there is no coin or the coins
\* together hold less than the amount
SelectionFailsWhenShort ==
    ~Returned(vcall.out) <=>
        \/ Len(vcall.coins) = 0
        \/ TotalOf(vcall.coins, Len(vcall.coins)) < vcall.amount

\* C36: for a custom asset the coins are selected in listed order up to the
\* first coin at which the running total reaches the amount: the selection
\* is the shortest prefix of at least one coin whose balances sum to at
\* least the amount; with no coin, or with less than the amount in all
\* coins together, an error is raised and nothing is selected.
C36_ShortestCoinPrefix ==
    CoinsSelected =>
        /\ SelectionFailsWhenShort
        /\ Returned(vcall.out) =>
               /\ SelectionIsPrefix(Len(vcall.out.v))
               /\ Len(vcall.out.v) >= 1
               /\ TotalOf(vcall.coins, Len(vcall.out.v)) >= vcall.amount
               /\ \A k \in 1..(Len(vcall.out.v) - 1) :
                      TotalOf(vcall.coins, k) < vcall.amount

\* C36 as stated: the shortest of all prefixes, the empty one included
C36_ShortestPrefix ==
    CoinsSelected =>
        /\ SelectionFailsWhenShort
        /\ Returned(vcall.out) =>
               /\ SelectionIsPrefix(Len(vcall.out.v))
               /\ TotalOf(vcall.coins, Len(vcall.out.v)) >= vcall.amount
               /\ \A k \in 0..(Len(vcall.out.v) - 1) :
                      TotalOf(vcall.coins, k) < vcall.amount

\* C36 witness: three coins, of which the first two reach the amount
C36_Witness ==
    /\ CoinsSelected
    /\ Len(vcall.coins) = 3
    /\ vcall.coins[1].balance = 5
    /\ vcall.coins[2].balance = 10
    /\ vcall.amount = 15
    /\ vcall.out = Ret(<<"c1", "c2">>)

====
